---- MODULE Spec2Model ----
(***************************************************************************)
(* Delegated-authorization token broker of the pizza agents.               *)
(*                                                                         *)
(* Two near-duplicate brokers are modelled side by side:                   *)
(*   AuthManager       src/b2c/pizza-agent-autogen/sdk/auth.py             *)
(*   PizzaAuthManager  src/b2c/pizza-agent/sdk/auth.py                     *)
(* The variable impl says which of the two a behaviour runs.               *)
(*                                                                         *)
(* Both run on one asyncio event loop: a coroutine runs without            *)
(* interruption between two awaits, so every action below is the code      *)
(* between two awaits of one coroutine.                                    *)
(***************************************************************************)
EXTENDS Integers, Sequences, FiniteSets, TLC

\* ---------------------------------------------------------------- bounds
MaxRequests == 2      \* get_oauth_token invocations in one behaviour
MaxCallbacks == 2     \* process_callback invocations in one behaviour
MaxTime == 3600       \* time.time() stays within one cache ttl of the start
MaxSize == 2          \* maxsize of a TokenManager that is exercised on its own

\* ------------------------------------------------------ program constants
DEFAULT_TOKEN_STORE_MAX_SIZE == 1000
DEFAULT_TOKEN_STORE_TTL == 3600
DEFAULT_AUTHORIZATION_TIMEOUT == 300
EXPIRY_MARGIN == 60
TokenLifetime == 3600      \* expires_in of the tokens the identity provider issues

Impls == {"AuthManager", "PizzaAuthManager"}

CLIENT_TOKEN == "client_credentials"
OBO_TOKEN == "authorization_code"
AGENT_TOKEN == "agent_token"

Requests == 1..MaxRequests
Callbacks == 1..MaxCallbacks

\* _create_state() draws an unguessable random string; the draw of request r
\* is written "st<r>".  BogusState is a value no request ever drew.
create_state(r) == "st" \o ToString(r)
BogusState == "st-unknown"
States == { create_state(r) : r \in Requests }

\* The codes a redirect can carry: one the token endpoint accepts and one it
\* rejects.
Codes == {"validcode", "badcode"}

\* AuthConfig values the secured tools present.
Configs ==
  { [scopes |-> <<"order:read", "order:write">>, token_type |-> OBO_TOKEN, resource |-> "pizza_api"],
    [scopes |-> <<"order:read", "order:write">>, token_type |-> OBO_TOKEN, resource |-> "billing_api"],
    [scopes |-> <<"menu:read">>, token_type |-> CLIENT_TOKEN, resource |-> "pizza_api"],
    [scopes |-> <<"openid">>, token_type |-> AGENT_TOKEN, resource |-> "pizza_api"] }

NoConfig == [scopes |-> <<>>, token_type |-> "", resource |-> ""]

Range(s) == { s[i] : i \in DOMAIN s }

\* " ".join(scopes)
RECURSIVE Join(_, _)
Join(s, sep) ==
  IF s = <<>> THEN ""
  ELSE IF Len(s) = 1 THEN s[1]
  ELSE s[1] \o sep \o Join(Tail(s), sep)

\* ----------------------------------------------------------------- tokens
NoToken == [access_token |-> 0, expires_at |-> 0, refresh_token |-> "", scope |-> ""]

\* is_expired without the 60 seconds of margin
is_expired_at_expiry(token, t) ==
  IF token.expires_at = 0 THEN TRUE
  ELSE t >= token.expires_at

\* OAuthToken.is_expired
is_expired(token, t) ==
  IF token.expires_at = 0 THEN TRUE
  ELSE t >= token.expires_at - EXPIRY_MARGIN

\* The token the identity provider issues for exchange number id, as OAuthToken(**token).
IssueToken(id, scopes, t) ==
  [access_token |-> id, expires_at |-> t + TokenLifetime,
   refresh_token |-> "rt", scope |-> Join(scopes, " ")]

\* The token the token endpoint issues for the client-credentials grant of
\* request number id: no refresh_token comes with it.
IssueClientToken(id, scopes, t) ==
  [access_token |-> id, expires_at |-> t + TokenLifetime,
   refresh_token |-> "", scope |-> Join(scopes, " ")]

\* ------------------------------------------------------------------- PKCE
\* _generate_pkce_pair: a fresh random verifier and base64url(sha256(verifier)).
\* The random verifier of request r is written "verifier<r>"; the challenge is a
\* one-way image of it.
S256(verifier) == "b64url(sha256(" \o verifier \o "))"
generate_pkce_pair(r) ==
  LET code_verifier == "verifier" \o ToString(r)
  IN  <<code_verifier, S256(code_verifier)>>

\* --------------------------------------------------------------- outcomes
\* What a coroutine hands to the code that awaits it.
Returned(token) == [kind |-> "token", token |-> token, error |-> ""]
ReturnedNone == [kind |-> "none", token |-> NoToken, error |-> ""]
Raised(e) == [kind |-> "error", token |-> NoToken, error |-> e]
NoOutcome == [kind |-> "unset", token |-> NoToken, error |-> ""]

\* error values
ErrTimeout == "Exception: User authorization timed out"
ErrNoHandler == "Exception: User authorization required but no message handler configured"
ErrInvalidState == "ValueError: Invalid state or no pending authorization."
ErrAlreadyCompleted == "ValueError: Authorization already completed."
ErrCodeRequired == "ValueError: 'code' is required for OBO token"
ErrAgentTokenRequired == "ValueError: Agent token is required for OBO token exchange but is not available"
ErrExchange == "OAuthError: token endpoint rejected the exchange"
ErrLatePrefix == "ValueError: Late callback token exchange failed: "
ErrFutureInvalidState == "asyncio.InvalidStateError"
ErrUnpack == "ValueError: too many values to unpack (expected 3)"
ErrRefresh == "OAuthError: token endpoint rejected the refresh"
ErrUnsupported == "ValueError: Unsupported token type: OAuthTokenType.AGENT_TOKEN"
ErrNotMapping == "TypeError: argument after ** must be a mapping, not NoneType"
ErrFetchTimeout == "ValueError: OBO token fetch timed out - this may indicate missing user authentication"
ErrHandler == "Exception: message handler failed"
ErrCancelled == "asyncio.CancelledError"

VARIABLES
  impl,             \* which broker class this behaviour runs
  message_handler,  \* self._message_handler is set
  agent_token,      \* self.agent_token: "" when agent authentication failed
  now,              \* time.time()
  token_store,      \* TokenManager.token_store: cache key -> token
  pending_auths,    \* _pending_auths: state -> (scopes, resource, code_verifier)
  future,           \* the asyncio.Future of each state: [status, token, error]
  pkce_data,        \* AuthManager._pkce_data: state -> (scopes, resource, code_verifier)
  req,              \* the get_oauth_token coroutines
  cb,               \* the process_callback coroutines
  notifications,    \* AuthRequestMessages handed to the message handler, in order
  tm_call,          \* the last direct calls of TokenManager.add_token and get_token
  agent_auth        \* the agent authentication of the constructor: answers, requests, result

vars == <<impl, message_handler, agent_token, now, token_store, pending_auths,
          future, pkce_data, req, cb, notifications, tm_call, agent_auth>>

\* ------------------------------------------------------ broker settings
client_id == "pizza-client"
redirect_uri == "https://agent.example/callback"
authorize_endpoint == "https://idp.example/oauth2/authorize"
agent_id == "pizza-agent"
AgentAccessToken == "agent-access-token"

\* the key built on the list of scopes instead of their frozenset
CacheKey_ordered(i, config) ==
  IF i = "AuthManager"
  THEN <<config.scopes, config.token_type>>
  ELSE <<config.scopes, config.token_type, config.resource>>

\* key = (frozenset(config.scopes), config.token_type)            AuthManager
\* key = (frozenset(config.scopes), config.token_type, resource)  PizzaAuthManager
CacheKey(i, config) ==
  IF i = "AuthManager"
  THEN <<Range(config.scopes), config.token_type>>
  ELSE <<Range(config.scopes), config.token_type, config.resource>>

\* ---------------------------------------------------- agent authentication
\* authenticate_agent_with_agent_credentials (AuthManager, three requests) and
\* authenticate_agent_with_basic_auth (PizzaAuthManager, four requests) run
\* with blocking HTTP calls, so a whole run is one step of the event loop.
\* The identity provider's answer to each request is one of:
\*   "ok"                a success status with every field the step reads
\*   "status"            a non-success status
\*   "no_flow"           success, but no flowId in the body
\*   "no_authenticator"  success, but no authenticatorId of a next step
\*   "no_code"           success, but no authorization code in authData
AuthAnswers == {"ok", "status", "no_flow", "no_authenticator", "no_code"}
NumSteps(i) == IF i = "AuthManager" THEN 3 ELSE 4
AuthResponses(i) == [1..NumSteps(i) -> AuthAnswers]

\* the requests of the sequence, with the identifiers they carry ("" for None)
AuthorizeRequest == [step |-> "authorize", flowId |-> "", authenticatorId |-> ""]
AuthnRequest(before) ==
  [step |-> "authn",
   flowId |-> IF before = "no_flow" THEN "" ELSE "flow-1",
   authenticatorId |-> IF before = "no_authenticator" THEN "" ELSE "authenticator"]
AuthnRequestInFlow(before) ==
  [step |-> "authn", flowId |-> "flow-1",
   authenticatorId |-> IF before = "no_authenticator" THEN "" ELSE "authenticator"]
TokenRequest == [step |-> "token", flowId |-> "", authenticatorId |-> ""]

AuthFailure(sent) == [result |-> "", sent |-> sent]

\* AuthManager.authenticate_agent_with_agent_credentials: the status of the
\* authorize answer is checked, its flowId and authenticatorId are not.
AM_authenticate_agent(resp) ==
  LET s1 == <<AuthorizeRequest>>
      s2 == Append(s1, AuthnRequest(resp[1]))
      s3 == Append(s2, TokenRequest)
  IN  IF resp[1] = "status" THEN AuthFailure(s1)
      ELSE IF resp[2] = "status" THEN AuthFailure(s2)
      ELSE IF resp[2] = "no_code" THEN AuthFailure(s2)
      ELSE IF resp[3] = "status" THEN AuthFailure(s3)
      ELSE [result |-> AgentAccessToken, sent |-> s3]

\* PizzaAuthManager.authenticate_agent_with_basic_auth: raise_for_status after
\* every request, "if not flow_id" after the first, "if not code" after the
\* third; the authenticatorIds are not checked.
PM_authenticate_agent(resp) ==
  LET s1 == <<AuthorizeRequest>>
      s2 == Append(s1, AuthnRequest(resp[1]))
      s3 == Append(s2, AuthnRequestInFlow(resp[2]))
      s4 == Append(s3, TokenRequest)
  IN  IF resp[1] = "status" THEN AuthFailure(s1)
      ELSE IF resp[1] = "no_flow" THEN AuthFailure(s1)
      ELSE IF resp[2] = "status" THEN AuthFailure(s2)
      ELSE IF resp[3] = "status" THEN AuthFailure(s3)
      ELSE IF resp[3] = "no_code" THEN AuthFailure(s3)
      ELSE IF resp[4] = "status" THEN AuthFailure(s4)
      ELSE [result |-> AgentAccessToken, sent |-> s4]

authenticate_agent(i, resp) ==
  IF i = "AuthManager" THEN AM_authenticate_agent(resp) ELSE PM_authenticate_agent(resp)

\* __init__: "self.agent_token = self.authenticate_agent...()", None on failure
Constructed(i, resp) ==
  [pc |-> "constructed", responses |-> resp,
   sent |-> authenticate_agent(i, resp).sent,
   result |-> authenticate_agent(i, resp).result]

\* The identity provider as the broker's own flows meet it at construction: it
\* answers every step, or it refuses the agent at the first one.
BrokerScenarios(i) ==
  { [k \in 1..NumSteps(i) |-> "ok"],
    [k \in 1..NumSteps(i) |-> IF k = 1 THEN "status" ELSE "ok"] }

\* ----------------------------------------------------------------- TTLCache
\* token_store = TTLCache(maxsize=maxsize, ttl=ttl).  links holds the entries
\* [key, value, expires] in the order of their last assignment, oldest first.
TTLCache(maxsize, ttl) == [maxsize |-> maxsize, ttl |-> ttl, links |-> <<>>]

\* the keys a lookup at time t can see: an entry is hidden once t >= expires
cache_keys(cache, t) ==
  { cache.links[n].key : n \in { m \in DOMAIN cache.links : t < cache.links[m].expires } }

\* cache.get(key) that hands out the oldest entry whatever the key
cache_get_oldest(cache, key, t) ==
  IF cache.links # <<>> THEN cache.links[1].value ELSE NoToken

\* cache.get(key), NoToken standing for None
cache_get(cache, key, t) ==
  IF key \in cache_keys(cache, t)
  THEN LET n == CHOOSE m \in DOMAIN cache.links : cache.links[m].key = key
       IN  cache.links[n].value
  ELSE NoToken

\* cache.expire(): the entries whose ttl has elapsed are removed
cache_expire(cache, t) ==
  [cache EXCEPT !.links = SelectSeq(@, LAMBDA e : t < e.expires)]

\* cache.pop(key)
cache_pop(cache, key) ==
  [cache EXCEPT !.links = SelectSeq(@, LAMBDA e : e.key # key)]

\* cache[key] = value that never evicts: the cache grows past maxsize
cache_setitem_unbounded(cache, key, value, t) ==
  LET live == cache_expire(cache, t).links
      rest == SelectSeq(live, LAMBDA e : e.key # key)
  IN  [cache EXCEPT !.links =
         Append(rest, [key |-> key, value |-> value, expires |-> t + cache.ttl])]

\* cache[key] = value: expire, then for a new key evict from the oldest entry
\* on while the cache is full, then put the entry last with a fresh ttl.
cache_setitem(cache, key, value, t) ==
  LET live == cache_expire(cache, t).links
      present == \E n \in DOMAIN live : live[n].key = key
      kept == IF ~present /\ Len(live) + 1 > cache.maxsize
              THEN SubSeq(live, Len(live) + 2 - cache.maxsize, Len(live))
              ELSE live
      rest == SelectSeq(kept, LAMBDA e : e.key # key)
  IN  [cache EXCEPT !.links =
         Append(rest, [key |-> key, value |-> value, expires |-> t + cache.ttl])]

\* ----------------------------------------------------------- TokenManager
\* add_token that stores nothing
add_token_dropped(store, i, config, token, t) == store

\* TokenManager.add_token: the store after the call
add_token(store, i, config, token, t) ==
  cache_setitem(store, CacheKey(i, config), token, t)

\* get_token that finds nothing
get_token_absent(store, i, config, t) == NoToken

\* TokenManager.get_token: what the call returns (NoToken stands for None)
get_token(store, i, config, t) ==
  cache_get(store, CacheKey(i, config), t)

\* TokenManager.get_token: the store after the call (an expired token is popped)
get_token_store(store, i, config, t) ==
  LET key == CacheKey(i, config)
      token == cache_get(store, key, t)
  IN  IF token # NoToken /\ is_expired(token, t)
      THEN cache_pop(store, key)
      ELSE store

\* ---------------------------------------------------------- asyncio.Future
NewFuture == [status |-> "pending", token |-> NoToken, error |-> ""]
\* done() that never reports completion
done_never(f) == FALSE
done(f) == f.status # "pending"
\* Future.set_result / set_exception / cancel on a future that is not done
\* set_result left out: the future stays as it was
set_result_missing(f, token) == f
set_result(f, token) == [status |-> "result", token |-> token, error |-> ""]
\* set_exception with the error replaced by a generic one
set_exception_generic(f, e) == [status |-> "exception", token |-> NoToken, error |-> "Exception"]
set_exception(f, e) == [status |-> "exception", token |-> NoToken, error |-> e]
cancel(f) == [status |-> "cancelled", token |-> NoToken, error |-> ""]

\* a pop that empties the dict
Pop_clear(d, key) == <<>>

\* dict.pop(key, None): the dict after the call
Pop(d, key) == [k \in DOMAIN d \ {key} |-> d[k]]
\* an assignment that is lost
Put_dropped(d, key, v) == d

\* d[key] = v: the dict after the assignment
Put(d, key, v) == [k \in DOMAIN d \cup {key} |-> IF k = key THEN v ELSE d[k]]

PendingEntry(config, code_verifier) ==
  [scopes |-> config.scopes, resource |-> config.resource, code_verifier |-> code_verifier]

\* ------------------------------------------------------ authorization URL
\* The URL is f"{authorize_endpoint}?" + "&".join(params); it is kept as the
\* endpoint and the list of its "&"-separated parameters.
AM_auth_url(config, state, code_challenge) ==
  [base |-> authorize_endpoint,
   params |-> <<"response_type=code",
                "client_id=" \o client_id,
                "redirect_uri=" \o redirect_uri,
                "scope=" \o Join(config.scopes, " "),
                "state=" \o state,
                "code_challenge=" \o code_challenge,
                "code_challenge_method=S256">>
              \o (IF agent_id # "" THEN <<"requested_actor=" \o agent_id>> ELSE <<>>)]

PM_auth_url(config, state, code_challenge) ==
  [base |-> authorize_endpoint,
   params |-> <<"client_id=" \o client_id,
                "response_type=code",
                "scope=" \o Join(config.scopes, " "),
                "redirect_uri=" \o redirect_uri,
                "state=" \o state,
                "code_challenge=" \o code_challenge,
                "code_challenge_method=S256">>
              \o <<"requested_actor=" \o agent_id>>
              \o (IF config.resource # "" THEN <<"resource=" \o config.resource>> ELSE <<>>)]

AuthRequestMessage(auth_url, state, scopes) ==
  [type |-> "auth_request", auth_url |-> auth_url, state |-> state, scopes |-> scopes]

\* ------------------------------------------------------------- AuthSchema
ErrRedirectRequired == "ValueError: Redirect URI is required for authorization code grant type."
ErrHandlerRequired == "ValueError: Message handler is required for authorization code grant type."

\* _validate_manager that accepts every manager
AuthSchema_validate_manager_lenient(config, handler, redirect) == ""

\* AuthSchema(manager, config)._validate_manager(): what the constructor raises
\* ("" when it returns), for a manager with that message handler and
\* redirect_uri.
AuthSchema_validate_manager(config, handler, redirect) ==
  IF config.token_type # OBO_TOKEN THEN ""
  ELSE IF redirect = "" THEN ErrRedirectRequired
  ELSE IF ~handler THEN ErrHandlerRequired
  ELSE ""

\* ------------------------------------------------------------ coroutines
\* The parameters of a token-endpoint request of the client-credentials grant.
NoClientRequest == [grant_type |-> "", scope |-> "", actor_token |-> ""]

\* History: timed_out records that the request went through the consent
\* timeout, via the branch it took ("cache", "refresh", "fetch" or "consent"),
\* refresh what became of its call of _refresh_oauth_token ("" when it made
\* none, "sent" when the refresh request went out, "none" when the call
\* returned None at once), sent the client-credentials request it sent.
IdleRequest ==
  [pc |-> "idle", config |-> NoConfig, state |-> "", timed_out |-> FALSE,
   via |-> "", refresh |-> "", sent |-> NoClientRequest, outcome |-> NoOutcome]

\* The last direct calls of a TokenManager: the config, token and time of the
\* last add_token and whether it evicted an entry for want of room; the
\* config, result and time of the last get_token after it; the token, time and
\* result of the last direct call of OAuthToken.is_expired.
NoCall ==
  [added |-> NoConfig, added_token |-> NoToken, added_at |-> 0, evicted |-> FALSE,
   config |-> NoConfig, token |-> NoToken, at |-> 0,
   checked |-> NoToken, checked_at |-> 0, expired |-> FALSE]

NoExchange == [scopes |-> <<>>, resource |-> "", code |-> "", code_verifier |-> "", actor_token |-> ""]
\* path: "pending" when the call found a pending entry, "recovery" when it found
\* only the recovery record; sent: a token-endpoint request went out, xreq;
\* issued: the token the endpoint answered with; late and after_success record
\* what had happened when the call was made.
\* instance: the broker instance the call was made on (1 is the broker that
\* serves the requests); answer: what became of the exchange request.
IdleCallback ==
  [pc |-> "idle", state |-> "", code |-> "", path |-> "", sent |-> FALSE,
   xreq |-> NoExchange, issued |-> NoToken, late |-> FALSE, after_success |-> FALSE,
   instance |-> 1, answer |-> "", outcome |-> NoOutcome]

\* The two resources are interchangeable names: the first request names
\* "pizza_api", later ones either resource.
FirstConfig(r, config) == r = 1 => config.resource = "pizza_api"

\* a broker that takes up a call only when the call before it has returned
Started_after_return(r) == IF r = 1 THEN TRUE ELSE req[r - 1].pc = "done"

\* Coroutines are numbered in the order of their calls.
Started(r) == IF r = 1 THEN TRUE ELSE req[r - 1].pc # "idle"
Called(c) == IF c = 1 THEN TRUE ELSE cb[c - 1].pc # "idle"

\* The state values a redirect can carry: a state is unguessable, so it is one
\* the broker has handed out, or a value the broker never drew.
CallbackStates == DOMAIN future \cup {BogusState}

\* the request that drew a state
RequestOf(state) == CHOOSE r \in Requests : create_state(r) = state

Init ==
  /\ impl \in Impls
  /\ message_handler \in BOOLEAN
  /\ \E resp \in BrokerScenarios(impl) :
       /\ agent_auth = Constructed(impl, resp)
       /\ agent_token = agent_auth.result
  /\ now = 0
  /\ token_store = TTLCache(DEFAULT_TOKEN_STORE_MAX_SIZE, DEFAULT_TOKEN_STORE_TTL)
  /\ pending_auths = <<>>
  /\ future = <<>>
  /\ pkce_data = <<>>
  /\ req = [r \in Requests |-> IdleRequest]
  /\ cb = [c \in Callbacks |-> IdleCallback]
  /\ notifications = <<>>
  /\ tm_call = NoCall

\* =============================================================== actions
\* ------------------------------------------------ consent flow, caller side
\* AuthManager._trigger_user_authorization up to the await of the message
\* handler: register the pending entry and the recovery record, build the URL,
\* hand the AuthRequestMessage to the handler.
AM_trigger_user_authorization(r, config, store, refreshed) ==
  IF ~message_handler
  THEN /\ req' = [req EXCEPT ![r] = [@ EXCEPT !.refresh = refreshed, !.pc = "done", !.config = config,
                                               !.via = "consent",
                                               !.outcome = Raised(ErrNoHandler)]]
       /\ token_store' = store
       /\ UNCHANGED <<pending_auths, future, pkce_data, notifications>>
  ELSE LET state == create_state(r)
           pkce == generate_pkce_pair(r)
           code_verifier == pkce[1]
           code_challenge == pkce[2]
           auth_url == AM_auth_url(config, state, code_challenge)
       IN  /\ future' = Put(future, state, NewFuture)
           /\ pending_auths' = Put(pending_auths, state, PendingEntry(config, code_verifier))
           /\ pkce_data' = Put(pkce_data, state, PendingEntry(config, code_verifier))
           /\ notifications' = Append(notifications,
                                      AuthRequestMessage(auth_url, state, config.scopes))
           /\ req' = [req EXCEPT ![r] = [@ EXCEPT !.refresh = refreshed, !.pc = "notify", !.config = config,
                                                   !.via = "consent", !.state = state]]
           /\ token_store' = store

\* PizzaAuthManager._fetch_obo_token up to the await of the message handler.
PM_fetch_obo_token(r, config, store, refreshed) ==
  IF ~message_handler
  THEN \* returns None; get_oauth_token returns None without caching
       /\ req' = [req EXCEPT ![r] = [@ EXCEPT !.refresh = refreshed, !.pc = "done", !.config = config,
                                               !.via = "consent",
                                               !.outcome = ReturnedNone]]
       /\ token_store' = store
       /\ UNCHANGED <<pending_auths, future, pkce_data, notifications>>
  ELSE LET state == create_state(r)
           pkce == generate_pkce_pair(r)
           code_verifier == pkce[1]
           code_challenge == pkce[2]
           auth_url == PM_auth_url(config, state, code_challenge)
       IN  /\ future' = Put(future, state, NewFuture)
           /\ pending_auths' = Put(pending_auths, state, PendingEntry(config, code_verifier))
           /\ notifications' = Append(notifications,
                                      AuthRequestMessage(auth_url, state, config.scopes))
           /\ req' = [req EXCEPT ![r] = [@ EXCEPT !.refresh = refreshed, !.pc = "notify", !.config = config,
                                                   !.via = "consent", !.state = state]]
           /\ token_store' = store
           /\ UNCHANGED pkce_data

\* "if token and token.is_expired()" that is never true
needs_refresh_never(i, config, token, t) == FALSE

\* get_oauth_token, "if token and token.is_expired()": AuthManager adds
\* "and config.token_type == OAuthTokenType.OBO_TOKEN".
needs_refresh(i, config, token, t) ==
  /\ token # NoToken
  /\ is_expired(token, t)
  /\ (i = "AuthManager" => config.token_type = OBO_TOKEN)

\* _refresh_oauth_token that sends the request whatever the refresh_token
refresh_oauth_token_sends_always(refresh_token) == TRUE

\* _refresh_oauth_token, "if not refresh_token: return None": the refresh
\* request goes to the token endpoint only with a refresh_token.
refresh_oauth_token_sends(refresh_token) == refresh_token # ""

\* the access_token of the token the endpoint issues to request r itself
RequestTokenId(r) == MaxCallbacks + r

\* _fetch_oauth_token, CLIENT_TOKEN: AsyncOAuth2Client(client_id, client_secret,
\* scope=config.scopes).fetch_token(url=self.token_endpoint)
client_request(config) ==
  [grant_type |-> "client_credentials", scope |-> Join(config.scopes, " "),
   actor_token |-> ""]

\* OAuthToken(**resp_json) of the token response of the agent authentication:
\* the raw response carries expires_in and no expires_at.
AgentGrantToken(id, scopes) ==
  [access_token |-> id, expires_at |-> 0, refresh_token |-> "", scope |-> Join(scopes, " ")]

\* AM_fetch_agent_token that keeps the new token as the broker's actor token
AM_fetch_agent_token_storing(r, config, store, resp) ==
  LET result == AM_authenticate_agent(resp).result
      token == AgentGrantToken(RequestTokenId(r), config.scopes)
  IN  /\ IF result = ""
         THEN /\ req' = [req EXCEPT ![r] = [@ EXCEPT !.pc = "done", !.config = config,
                                                     !.via = "agent",
                                                     !.outcome = Raised(ErrNotMapping)]]
              /\ token_store' = store
         ELSE /\ req' = [req EXCEPT ![r] = [@ EXCEPT !.pc = "done", !.config = config,
                                                     !.via = "agent",
                                                     !.outcome = Returned(token)]]
              /\ token_store' = add_token(store, impl, config, token, now)
      /\ agent_token' = result
      /\ UNCHANGED <<pending_auths, future, pkce_data, notifications>>

\* AuthManager, AGENT_TOKEN on a cache miss: _fetch_oauth_token runs
\* authenticate_agent_with_agent_credentials(config) with blocking requests and
\* builds OAuthToken(**token), a TypeError when the authentication returned
\* None; get_oauth_token caches the token and returns it.  self.agent_token is
\* not assigned.
AM_fetch_agent_token(r, config, store, resp) ==
  LET result == AM_authenticate_agent(resp).result
      token == AgentGrantToken(RequestTokenId(r), config.scopes)
  IN  /\ IF result = ""
         THEN /\ req' = [req EXCEPT ![r] = [@ EXCEPT !.pc = "done", !.config = config,
                                                     !.via = "agent",
                                                     !.outcome = Raised(ErrNotMapping)]]
              /\ token_store' = store
         ELSE /\ req' = [req EXCEPT ![r] = [@ EXCEPT !.pc = "done", !.config = config,
                                                     !.via = "agent",
                                                     !.outcome = Returned(token)]]
              /\ token_store' = add_token(store, impl, config, token, now)
      /\ agent_token' = agent_token
      /\ UNCHANGED <<pending_auths, future, pkce_data, notifications>>

\* PizzaAuthManager, AGENT_TOKEN on a cache miss: get_oauth_token raises
\* ValueError("Unsupported token type: ...").
PM_unsupported_token_type(r, config, store) ==
  /\ req' = [req EXCEPT ![r] = [@ EXCEPT !.pc = "done", !.config = config,
                                          !.via = "agent",
                                          !.outcome = Raised(ErrUnsupported)]]
  /\ token_store' = store
  /\ UNCHANGED <<agent_token, pending_auths, future, pkce_data, notifications>>

\* get_oauth_token(config) from its call to its first await (or its return).
get_oauth_token(r, config) ==
  /\ req[r].pc = "idle"
  /\ Started(r)
  /\ FirstConfig(r, config)
  /\ LET token == get_token(token_store, impl, config, now)
         store == get_token_store(token_store, impl, config, now)
         refresh == needs_refresh(impl, config, token, now)
         refreshed == IF ~refresh THEN ""
                      ELSE IF refresh_oauth_token_sends(token.refresh_token) THEN "sent"
                      ELSE "none"
     IN  IF refresh /\ refresh_oauth_token_sends(token.refresh_token)
         THEN \* await client.refresh_token(...): the refresh request is on its way
              /\ req' = [req EXCEPT ![r] = [@ EXCEPT !.refresh = refreshed, !.pc = "refresh",
                                                      !.config = config, !.via = "refresh"]]
              /\ token_store' = store
              /\ UNCHANGED <<agent_token, pending_auths, future, pkce_data, notifications>>
         ELSE IF token # NoToken /\ ~refresh
         THEN \* "if token: return token"
              /\ req' = [req EXCEPT ![r] = [@ EXCEPT !.refresh = refreshed, !.pc = "done",
                                                      !.config = config, !.via = "cache",
                                                      !.outcome = Returned(token)]]
              /\ token_store' = store
              /\ UNCHANGED <<agent_token, pending_auths, future, pkce_data, notifications>>
         ELSE IF config.token_type = OBO_TOKEN
         THEN \* no token, or _refresh_oauth_token returned None for want of a
              \* refresh_token: the consent flow
              /\ IF impl = "AuthManager"
                 THEN AM_trigger_user_authorization(r, config, store, refreshed)
                 ELSE PM_fetch_obo_token(r, config, store, refreshed)
              /\ UNCHANGED agent_token
         ELSE IF config.token_type = CLIENT_TOKEN
         THEN \* await client.fetch_token(...): the request is on its way
              /\ req' = [req EXCEPT ![r] = [@ EXCEPT !.refresh = refreshed, !.pc = "fetch",
                                                      !.config = config, !.via = "fetch",
                                                      !.sent = client_request(config)]]
              /\ token_store' = store
              /\ UNCHANGED <<agent_token, pending_auths, future, pkce_data, notifications>>
         ELSE IF impl = "AuthManager"
         THEN \E resp \in BrokerScenarios(impl) : AM_fetch_agent_token(r, config, store, resp)
         ELSE PM_unsupported_token_type(r, config, store)
  /\ UNCHANGED <<impl, tm_call, agent_auth, message_handler, now, cb>>

\* The answers of the token endpoint to a refresh or client-credentials request.
Answers == {"ok", "rejected"}

\* _refresh_oauth_token after its await, and get_oauth_token to its end: the
\* refreshed token is returned ("if token: return token"), a failed refresh is
\* logged and raised again.
refresh_completes(r, answer) ==
  /\ req[r].pc = "refresh"
  /\ LET token == IssueToken(RequestTokenId(r), req[r].config.scopes, now)
     IN  IF answer = "ok"
         THEN req' = [req EXCEPT ![r] = [@ EXCEPT !.pc = "done", !.outcome = Returned(token)]]
         ELSE req' = [req EXCEPT ![r] = [@ EXCEPT !.pc = "done", !.outcome = Raised(ErrRefresh)]]
  /\ UNCHANGED <<impl, tm_call, agent_auth, message_handler, agent_token, now, token_store, pending_auths,
                 future, pkce_data, cb, notifications>>

\* fetch_completes that refuses to go on without the broker's actor token
fetch_completes_requiring_agent_token(r, answer) ==
  /\ req[r].pc = "fetch"
  /\ LET token == IssueClientToken(RequestTokenId(r), req[r].config.scopes, now)
     IN  IF agent_token = ""
         THEN /\ token_store' = token_store
              /\ req' = [req EXCEPT ![r] = [@ EXCEPT !.pc = "done",
                                                      !.outcome = Raised(ErrAgentTokenRequired)]]
         ELSE IF answer = "ok"
         THEN /\ token_store' = add_token(token_store, impl, req[r].config, token, now)
              /\ req' = [req EXCEPT ![r] = [@ EXCEPT !.pc = "done", !.outcome = Returned(token)]]
         ELSE /\ token_store' = token_store
              /\ req' = [req EXCEPT ![r] = [@ EXCEPT !.pc = "done", !.outcome = Raised(ErrExchange)]]
  /\ UNCHANGED <<impl, tm_call, agent_auth, message_handler, agent_token, now, pending_auths,
                 future, pkce_data, cb, notifications>>

\* _fetch_oauth_token for CLIENT_TOKEN after its await, and get_oauth_token to
\* its end: "if token: add_token(config, token)", "return token".
fetch_completes(r, answer) ==
  /\ req[r].pc = "fetch"
  /\ LET token == IssueClientToken(RequestTokenId(r), req[r].config.scopes, now)
     IN  IF answer = "ok"
         THEN /\ token_store' = add_token(token_store, impl, req[r].config, token, now)
              /\ req' = [req EXCEPT ![r] = [@ EXCEPT !.pc = "done", !.outcome = Returned(token)]]
         ELSE /\ token_store' = token_store
              /\ req' = [req EXCEPT ![r] = [@ EXCEPT !.pc = "done", !.outcome = Raised(ErrExchange)]]
  /\ UNCHANGED <<impl, tm_call, agent_auth, message_handler, agent_token, now, pending_auths,
                 future, pkce_data, cb, notifications>>

\* No coroutine is between its call and its return.
Quiescent ==
  /\ \A r \in Requests : req[r].pc \in {"idle", "done"}
  /\ \A c \in Callbacks : cb[c].pc \in {"idle", "done"}

\* time.time() moves on.  Within a flow the passing of time shows as the
\* timeout actions; between calls the clock moves to the point where a token
\* issued at the start is counted as expired, or to the end of the cache ttl.
\* With an empty cache nothing in the broker refers to an earlier time, so the
\* clock is only followed once something is cached.
ClockSteps == {TokenLifetime - EXPIRY_MARGIN, DEFAULT_TOKEN_STORE_TTL}
clock_advance(d) ==
  /\ Quiescent
  /\ token_store.links # <<>>
  /\ now + d <= MaxTime
  /\ now' = now + d
  /\ UNCHANGED <<impl, tm_call, agent_auth, message_handler, agent_token, token_store, pending_auths,
                 future, pkce_data, req, cb, notifications>>

\* await self._message_handler(...) returns; the coroutine reaches
\* asyncio.wait_for(future, timeout=self.authorization_timeout).
message_handler_returns(r) ==
  /\ req[r].pc = "notify"
  /\ req' = [req EXCEPT ![r] = [@ EXCEPT !.pc = "wait"]]
  /\ UNCHANGED <<impl, tm_call, agent_auth, message_handler, agent_token, now, token_store, pending_auths,
                 future, pkce_data, cb, notifications>>

\* caller_resumes with the awaited token dropped: the coroutine returns None.
caller_resumes_drops_token(r) ==
  /\ req[r].pc = "wait"
  /\ future[req[r].state].status \in {"result", "exception"}
  /\ token_store' = token_store
  /\ req' = [req EXCEPT ![r] = [@ EXCEPT !.pc = "done", !.outcome = ReturnedNone]]
  /\ UNCHANGED <<impl, tm_call, agent_auth, message_handler, agent_token, now, pending_auths, future,
                 pkce_data, cb, notifications>>

\* The future is done and wait_for hands its result or exception to the caller.
\* AuthManager caches in _trigger_user_authorization, PizzaAuthManager in
\* get_oauth_token ("if token: add_token"); both return the token.
caller_resumes(r) ==
  /\ req[r].pc = "wait"
  /\ LET f == future[req[r].state]
     IN  /\ f.status \in {"result", "exception"}
         /\ IF f.status = "result"
            THEN /\ token_store' = add_token(token_store, impl, req[r].config, f.token, now)
                 /\ req' = [req EXCEPT ![r] = [@ EXCEPT !.pc = "done",
                                                         !.outcome = Returned(f.token)]]
            ELSE /\ token_store' = token_store
                 /\ req' = [req EXCEPT ![r] = [@ EXCEPT !.pc = "done",
                                                         !.outcome = Raised(f.error)]]
  /\ UNCHANGED <<impl, tm_call, agent_auth, message_handler, agent_token, now, pending_auths, future,
                 pkce_data, cb, notifications>>

\* authorization_timeout elapses while the future is pending: wait_for cancels
\* the future; the TimeoutError reaches the caller at its next step.
wait_for_timeout(r) ==
  /\ req[r].pc = "wait"
  /\ ~done(future[req[r].state])
  /\ future' = [future EXCEPT ![req[r].state] = cancel(@)]
  /\ req' = [req EXCEPT ![r] = [@ EXCEPT !.pc = "timeout", !.timed_out = TRUE]]
  /\ UNCHANGED <<impl, tm_call, agent_auth, message_handler, agent_token, now, token_store, pending_auths,
                 pkce_data, cb, notifications>>

\* authorization_timeout elapses in the loop iteration in which the future was
\* completed, before the caller has run.  asyncio up to 3.11 hands the result
\* to the caller (caller_resumes); asyncio from 3.12 on cancels the caller's
\* await and raises TimeoutError although the future holds a result.
wait_for_timeout_after_done(r) ==
  /\ req[r].pc = "wait"
  /\ future[req[r].state].status \in {"result", "exception"}
  /\ req' = [req EXCEPT ![r] = [@ EXCEPT !.pc = "timeout", !.timed_out = TRUE]]
  /\ UNCHANGED <<impl, tm_call, agent_auth, message_handler, agent_token, now, token_store, pending_auths,
                 future, pkce_data, cb, notifications>>

\* AM_timeout_handler that also drops the recovery record
AM_timeout_handler_drops_recovery(r) ==
  /\ impl = "AuthManager"
  /\ req[r].pc = "timeout"
  /\ pending_auths' = Pop(pending_auths, req[r].state)
  /\ pkce_data' = Pop(pkce_data, req[r].state)
  /\ req' = [req EXCEPT ![r] = [@ EXCEPT !.pc = "done", !.outcome = Raised(ErrTimeout)]]
  /\ UNCHANGED <<impl, tm_call, agent_auth, message_handler, agent_token, now, token_store, future,
                 cb, notifications>>

\* AuthManager: "except asyncio.TimeoutError" of _trigger_user_authorization.
AM_timeout_handler(r) ==
  /\ impl = "AuthManager"
  /\ req[r].pc = "timeout"
  /\ pending_auths' = Pop(pending_auths, req[r].state)
  /\ req' = [req EXCEPT ![r] = [@ EXCEPT !.pc = "done", !.outcome = Raised(ErrTimeout)]]
  /\ UNCHANGED <<impl, tm_call, agent_auth, message_handler, agent_token, now, token_store, future,
                 pkce_data, cb, notifications>>

\* PizzaAuthManager: "except asyncio.TimeoutError" of _fetch_obo_token.  The
\* entry is a 4-tuple and "_, future, _ = _pending_auths.pop(state)" raises
\* ValueError after the pop; with no entry left the coroutine returns None.
PM_timeout_handler(r) ==
  /\ impl = "PizzaAuthManager"
  /\ req[r].pc = "timeout"
  /\ IF req[r].state \in DOMAIN pending_auths
     THEN /\ pending_auths' = Pop(pending_auths, req[r].state)
          /\ req' = [req EXCEPT ![r] = [@ EXCEPT !.pc = "done", !.outcome = Raised(ErrUnpack)]]
     ELSE /\ pending_auths' = pending_auths
          /\ req' = [req EXCEPT ![r] = [@ EXCEPT !.pc = "done", !.outcome = ReturnedNone]]
  /\ UNCHANGED <<impl, tm_call, agent_auth, message_handler, agent_token, now, token_store, future,
                 pkce_data, cb, notifications>>

\* --------------------------------------------- consent flow, callback side
\* history: the consent timeout of the request that drew this state has run
\* to its end (the caller has left get_oauth_token through the timeout)
AfterTimeout(state) ==
  /\ state \in States
  /\ req[RequestOf(state)].pc = "done"
  /\ req[RequestOf(state)].timed_out

\* history: an earlier process_callback with this state has returned a token
AfterSuccess(state) ==
  \E d \in Callbacks : /\ cb[d].pc = "done"
                       /\ cb[d].state = state
                       /\ cb[d].outcome.kind = "token"

\* What _fetch_oauth_token raises before it sends anything ("" when it sends).
\* AuthManager refuses an empty code and a missing agent token; in
\* PizzaAuthManager process_callback builds the request itself, without checks.
local_failure(i, code) ==
  IF i = "PizzaAuthManager" THEN ""
  ELSE IF code = "" THEN ErrCodeRequired
  ELSE IF agent_token = "" THEN ErrAgentTokenRequired
  ELSE ""

\* exchange_request without the PKCE verifier of the entry
exchange_request_without_verifier(entry, code) ==
  [scopes |-> entry.scopes, resource |-> entry.resource, code |-> code,
   code_verifier |-> "", actor_token |-> agent_token]

\* The parameters of the token-endpoint request of the exchange.
exchange_request(entry, code) ==
  [scopes |-> entry.scopes, resource |-> entry.resource, code |-> code,
   code_verifier |-> entry.code_verifier, actor_token |-> agent_token]

\* The process_callback coroutine as it is called.
called_with(c, state, code) ==
  [cb[c] EXCEPT !.state = state, !.code = code,
                !.late = AfterTimeout(state), !.after_success = AfterSuccess(state)]

\* AM_late_callback that lets the missing record surface as a KeyError
AM_late_callback_keyerror(c, state, code) ==
  LET called == called_with(c, state, code)
      e == local_failure(impl, code)
  IN  /\ pkce_data' = Pop(pkce_data, state)
      /\ future' = future
      /\ IF state \notin DOMAIN pkce_data
         THEN cb' = [cb EXCEPT ![c] = [called EXCEPT !.pc = "done",
                                         !.outcome = Raised("KeyError")]]
         ELSE IF e # ""
         THEN cb' = [cb EXCEPT ![c] = [called EXCEPT !.pc = "done", !.path = "recovery",
                                         !.outcome = Raised(ErrLatePrefix \o e)]]
         ELSE cb' = [cb EXCEPT ![c] = [called EXCEPT !.pc = "exchange", !.path = "recovery",
                                         !.sent = TRUE,
                                         !.xreq = exchange_request(pkce_data[state], code)]]

\* AuthManager.process_callback, "if not pending_auth": late callback recovery
\* from _pkce_data, or the invalid-state error.
AM_late_callback(c, state, code) ==
  LET called == called_with(c, state, code)
      e == local_failure(impl, code)
  IN  /\ pkce_data' = Pop(pkce_data, state)
      /\ future' = future
      /\ IF state \notin DOMAIN pkce_data
         THEN cb' = [cb EXCEPT ![c] = [called EXCEPT !.pc = "done",
                                         !.outcome = Raised(ErrInvalidState)]]
         ELSE IF e # ""
         THEN cb' = [cb EXCEPT ![c] = [called EXCEPT !.pc = "done", !.path = "recovery",
                                         !.outcome = Raised(ErrLatePrefix \o e)]]
         ELSE cb' = [cb EXCEPT ![c] = [called EXCEPT !.pc = "exchange", !.path = "recovery",
                                         !.sent = TRUE,
                                         !.xreq = exchange_request(pkce_data[state], code)]]

\* AuthManager.process_callback with the popped entry: the done check and the
\* call of _fetch_oauth_token up to its await.
AM_pending_callback(c, state, code) ==
  LET called == called_with(c, state, code)
      e == local_failure(impl, code)
  IN  /\ pkce_data' = pkce_data
      /\ IF done(future[state])
         THEN /\ future' = future
              /\ cb' = [cb EXCEPT ![c] = [called EXCEPT !.pc = "done", !.path = "pending",
                                           !.outcome = Raised(ErrAlreadyCompleted)]]
         ELSE IF e # ""
         THEN \* except Exception as e: future.set_exception(e); raise
              /\ future' = [future EXCEPT ![state] = set_exception(@, e)]
              /\ cb' = [cb EXCEPT ![c] = [called EXCEPT !.pc = "done", !.path = "pending",
                                           !.outcome = Raised(e)]]
         ELSE /\ future' = future
              /\ cb' = [cb EXCEPT ![c] = [called EXCEPT !.pc = "exchange", !.path = "pending",
                                           !.sent = TRUE,
                                           !.xreq = exchange_request(pending_auths[state], code)]]

\* AuthManager.process_callback from its call to the await of the exchange.
AM_process_callback(c, state, code) ==
  /\ impl = "AuthManager"
  /\ cb[c].pc = "idle"
  /\ Called(c)
  /\ pending_auths' = Pop(pending_auths, state)
  /\ IF state \notin DOMAIN pending_auths
     THEN AM_late_callback(c, state, code)
     ELSE AM_pending_callback(c, state, code)
  /\ UNCHANGED <<impl, tm_call, agent_auth, message_handler, agent_token, now, token_store, req, notifications>>

\* PizzaAuthManager.process_callback from its call to the await of the exchange.
\* _pending_auths is a global of the module, so the call finds the entries of
\* every PizzaAuthManager instance of the process, whichever instance it is
\* made on.
PM_callback_on(instance, c, state, code) ==
  /\ impl = "PizzaAuthManager"
  /\ cb[c].pc = "idle"
  /\ Called(c)
  /\ LET called == [called_with(c, state, code) EXCEPT !.instance = instance]
     IN  IF state \notin DOMAIN pending_auths
         THEN /\ pending_auths' = pending_auths
              /\ cb' = [cb EXCEPT ![c] = [called EXCEPT !.pc = "done",
                                           !.outcome = Raised(ErrInvalidState)]]
         ELSE /\ pending_auths' = Pop(pending_auths, state)
              /\ IF done(future[state])
                 THEN cb' = [cb EXCEPT ![c] = [called EXCEPT !.pc = "done", !.path = "pending",
                                                !.outcome = Raised(ErrAlreadyCompleted)]]
                 ELSE cb' = [cb EXCEPT ![c] = [called EXCEPT !.pc = "exchange", !.path = "pending",
                                                !.sent = TRUE,
                                                !.xreq = exchange_request(pending_auths[state], code)]]
  /\ UNCHANGED <<impl, tm_call, agent_auth, message_handler, agent_token, now, token_store, future, pkce_data,
                 req, notifications>>

PM_process_callback(c, state, code) == PM_callback_on(1, c, state, code)

\* AuthManager.process_callback called on another AuthManager instance, one
\* that has started no flow: its _pending_auths and _pkce_data are its own
\* (instance attributes) and hold nothing.
AM_callback_on_other(c, state, code) ==
  /\ impl = "AuthManager"
  /\ cb[c].pc = "idle"
  /\ Called(c)
  /\ cb' = [cb EXCEPT ![c] = [called_with(c, state, code) EXCEPT
                                !.instance = 2, !.pc = "done",
                                !.outcome = Raised(ErrInvalidState)]]
  /\ UNCHANGED <<impl, tm_call, agent_auth, message_handler, agent_token, now, token_store,
                 pending_auths, future, pkce_data, req, notifications>>

\* process_callback(state, code) on a second broker instance of the same
\* module and settings
other_instance_callback(c, state, code) ==
  \/ AM_callback_on_other(c, state, code)
  \/ PM_callback_on(2, c, state, code)

\* The answer of the token endpoint to an exchange: it issues a token for a
\* code it accepts ("validcode") and rejects every other one.
ExchangeAnswer(code) == IF code = "validcode" THEN "ok" ELSE "rejected"

\* process_callback after the await of the exchange, to its return or raise,
\* when the exchange ended with that answer ("timeout": the 30 seconds of
\* AuthManager's wait_for around fetch_token elapsed).  Completing a future
\* that is already done raises asyncio.InvalidStateError, inside the try
\* (set_result) and again inside the except (set_exception).
exchange_completes(c, answer) ==
  /\ cb[c].pc = "exchange"
  /\ LET state == cb[c].state
         token == IssueToken(c, cb[c].xreq.scopes, now)
         e == IF answer = "timeout" THEN ErrFetchTimeout ELSE ErrExchange
         answered == [cb[c] EXCEPT !.pc = "done", !.answer = answer,
                                   !.issued = IF answer = "ok" THEN token ELSE NoToken]
     IN  IF cb[c].path = "recovery"
         THEN /\ future' = future
              /\ cb' = [cb EXCEPT ![c] = [answered EXCEPT
                          !.outcome = IF answer = "ok" THEN Returned(token)
                                      ELSE Raised(ErrLatePrefix \o e)]]
         ELSE IF done(future[state])
         THEN /\ future' = future
              /\ cb' = [cb EXCEPT ![c] = [answered EXCEPT
                          !.outcome = Raised(ErrFutureInvalidState)]]
         ELSE IF answer = "ok"
         THEN /\ future' = [future EXCEPT ![state] = set_result(@, token)]
              /\ cb' = [cb EXCEPT ![c] = [answered EXCEPT !.outcome = Returned(token)]]
         ELSE /\ future' = [future EXCEPT ![state] = set_exception(@, e)]
              /\ cb' = [cb EXCEPT ![c] = [answered EXCEPT !.outcome = Raised(e)]]
  /\ UNCHANGED <<impl, tm_call, agent_auth, message_handler, agent_token, now, token_store, pending_auths,
                 pkce_data, req, notifications>>

\* the token endpoint answers the exchange
process_callback_completes(c) ==
  /\ cb[c].pc = "exchange"
  /\ exchange_completes(c, ExchangeAnswer(cb[c].code))

\* a timeout of the exchange that process_callback swallows: it returns None
\* and leaves the handle alone
AM_exchange_times_out_silently(c) ==
  /\ impl = "AuthManager"
  /\ cb[c].pc = "exchange"
  /\ cb' = [cb EXCEPT ![c] = [@ EXCEPT !.pc = "done", !.answer = "timeout",
                                       !.outcome = ReturnedNone]]
  /\ UNCHANGED <<impl, tm_call, agent_auth, message_handler, agent_token, now, token_store,
                 pending_auths, future, pkce_data, req, notifications>>

\* AuthManager._fetch_oauth_token: asyncio.wait_for(client.fetch_token(...),
\* timeout=30.0) times out, "except asyncio.TimeoutError: raise ValueError(...)".
AM_exchange_times_out(c) ==
  /\ impl = "AuthManager"
  /\ cb[c].pc = "exchange"
  /\ exchange_completes(c, "timeout")

\* ------------------------------------- consent flow, what can go wrong
\* "await self._message_handler(...)" raises: the call is outside every try,
\* so the exception leaves get_oauth_token; the pending entry, the handle and
\* the recovery record stay as they were written.
message_handler_raises(r) ==
  /\ req[r].pc = "notify"
  /\ req' = [req EXCEPT ![r] = [@ EXCEPT !.pc = "done", !.outcome = Raised(ErrHandler)]]
  /\ UNCHANGED <<impl, tm_call, agent_auth, message_handler, agent_token, now, token_store,
                 pending_auths, future, pkce_data, cb, notifications>>

\* The task that awaits get_oauth_token is cancelled while it waits for the
\* handle: the cancellation cancels the handle and CancelledError leaves the
\* coroutine past "except asyncio.TimeoutError"; the pending entry stays.
caller_cancelled(r) ==
  /\ req[r].pc = "wait"
  /\ future[req[r].state].status = "pending"
  /\ future' = [future EXCEPT ![req[r].state] = cancel(@)]
  /\ req' = [req EXCEPT ![r] = [@ EXCEPT !.pc = "done", !.outcome = Raised(ErrCancelled)]]
  /\ UNCHANGED <<impl, tm_call, agent_auth, message_handler, agent_token, now, token_store,
                 pending_auths, pkce_data, cb, notifications>>

\* ------------------------------------------------------ secured tools
\* The exceptions of get_oauth_token whose text, lower-cased, contains
\* "authentication", "authorization" or "oauth": the two that
\* _trigger_user_authorization raises, the timeout of the exchange, and the
\* tool's own "No OAuth token found for ..." for a None.  (The texts of the identity provider's errors are not
\* the broker's; they are taken not to contain the words.)
ErrNoToken == "Exception: No OAuth token found"
AuthWorded == {ErrTimeout, ErrNoHandler, ErrNoToken, ErrFetchTimeout}

NoUrl == [base |-> "", params |-> <<>>]
NoToolResult == [kind |-> "", auth_url |-> NoUrl]

\* autogen/tool.py, SecureFunctionTool.run around get_oauth_token: the URL the
\* tool builds itself, with a state "tool-auth-<random>" and a PKCE pair of its
\* own, neither of which it hands to the AuthManager.
ToolAuthUrl(r, config) ==
  [base |-> authorize_endpoint,
   params |-> <<"response_type=code",
                "client_id=" \o client_id,
                "redirect_uri=" \o redirect_uri,
                "scope=" \o Join(config.scopes, " "),
                "state=" \o "tool-auth-" \o ToString(r),
                "code_challenge=" \o S256("tool-verifier" \o ToString(r)),
                "code_challenge_method=S256",
                "requested_actor=" \o agent_id>>]

\* SecureFunctionTool.run (pizza-agent-autogen) for a request that has left
\* get_oauth_token: the tool runs with the token, or returns the
\* "requires_auth" dict with the URL it generated, or re-raises.
\* PizzaAuthManager's SecureFunctionTool.execute re-raises every exception.
SecureFunctionTool_run(i, r, request) ==
  LET e == IF request.outcome.kind = "none" THEN ErrNoToken ELSE request.outcome.error
  IN  IF request.pc # "done" THEN NoToolResult
      ELSE IF request.outcome.kind = "token" THEN [kind |-> "executed", auth_url |-> NoUrl]
      ELSE IF i = "AuthManager" /\ e \in AuthWorded
      THEN [kind |-> "requires_auth", auth_url |-> ToolAuthUrl(r, request.config)]
      ELSE [kind |-> "raised", auth_url |-> NoUrl]

\* ------------------------------------------------ TokenManager on its own
\* A TokenManager(maxsize, ttl) is a class of its own; these are its two
\* methods called directly, with the configs and tokens a caller can pass.
CacheConfigs ==
  { [scopes |-> sc, token_type |-> tt, resource |-> "pizza_api"] :
      sc \in {<<"order:read", "order:write">>, <<"order:write", "order:read">>},
      tt \in {CLIENT_TOKEN, OBO_TOKEN, AGENT_TOKEN} }
  \cup { [scopes |-> <<"order:read", "order:write">>, token_type |-> OBO_TOKEN,
          resource |-> "billing_api"] }

\* a token issued at time t for the usual lifetime, and one that outlives the
\* cache ttl
CacheTokens(t) ==
  { [access_token |-> 1, expires_at |-> t + TokenLifetime, refresh_token |-> "rt", scope |-> ""],
    [access_token |-> 2, expires_at |-> t + 2 * TokenLifetime, refresh_token |-> "", scope |-> ""] }

\* the assignment evicts an entry whose ttl has not elapsed
evicts(cache, key, t) ==
  /\ key \notin cache_keys(cache, t)
  /\ Cardinality(cache_keys(cache, t)) + 1 > cache.maxsize

CacheInit ==
  /\ impl \in Impls
  /\ message_handler = TRUE
  /\ agent_auth = Constructed(impl, [k \in 1..NumSteps(impl) |-> "ok"])
  /\ agent_token = AgentAccessToken
  /\ now = 0
  /\ token_store = TTLCache(MaxSize, DEFAULT_TOKEN_STORE_TTL)
  /\ pending_auths = <<>>
  /\ future = <<>>
  /\ pkce_data = <<>>
  /\ req = [r \in Requests |-> IdleRequest]
  /\ cb = [c \in Callbacks |-> IdleCallback]
  /\ notifications = <<>>
  /\ tm_call = NoCall

\* token_manager.add_token(config, token)
TM_add_token(config, token) ==
  /\ token_store' = add_token(token_store, impl, config, token, now)
  /\ tm_call' = [NoCall EXCEPT !.added = config, !.added_token = token, !.added_at = now,
                               !.evicted = evicts(token_store, CacheKey(impl, config), now)]
  /\ UNCHANGED <<impl, agent_auth, message_handler, agent_token, now, pending_auths, future,
                 pkce_data, req, cb, notifications>>

\* token_manager.get_token(config)
TM_get_token(config) ==
  /\ token_store' = get_token_store(token_store, impl, config, now)
  /\ tm_call' = [tm_call EXCEPT !.config = config, !.at = now,
                                !.token = get_token(token_store, impl, config, now)]
  /\ UNCHANGED <<impl, agent_auth, message_handler, agent_token, now, pending_auths, future,
                 pkce_data, req, cb, notifications>>

\* the tokens a caller can hold: one just issued, one taken from the cache
\* earlier, and one built without expires_at (None, written 0)
HeldTokens(t) ==
  CacheTokens(t) \cup { l.value : l \in Range(token_store.links) }
  \cup { [access_token |-> 3, expires_at |-> 0, refresh_token |-> "", scope |-> ""] }

\* token.is_expired()
OAuthToken_is_expired(token) ==
  /\ tm_call' = [NoCall EXCEPT !.checked = token, !.checked_at = now,
                               !.expired = is_expired(token, now)]
  /\ UNCHANGED <<impl, agent_auth, message_handler, agent_token, now, token_store,
                 pending_auths, future, pkce_data, req, cb, notifications>>

CacheNext ==
  \/ \E config \in CacheConfigs, token \in CacheTokens(now) : TM_add_token(config, token)
  \/ \E config \in CacheConfigs : TM_get_token(config)
  \/ \E token \in HeldTokens(now) : OAuthToken_is_expired(token)
  \/ \E d \in ClockSteps : clock_advance(d)

CacheSpec == CacheInit /\ [][CacheNext]_vars

\* --------------------------------------------- the constructor on its own
\* The broker before __init__ has run, facing any answers of the identity
\* provider; construct is the agent authentication of __init__.
NotConstructed(resp) ==
  [pc |-> "new", responses |-> resp, sent |-> <<>>, result |-> ""]

AgentAuthInit ==
  /\ impl \in Impls
  /\ message_handler = TRUE
  /\ \E resp \in AuthResponses(impl) : agent_auth = NotConstructed(resp)
  /\ agent_token = ""
  /\ now = 0
  /\ token_store = TTLCache(DEFAULT_TOKEN_STORE_MAX_SIZE, DEFAULT_TOKEN_STORE_TTL)
  /\ pending_auths = <<>>
  /\ future = <<>>
  /\ pkce_data = <<>>
  /\ req = [r \in Requests |-> IdleRequest]
  /\ cb = [c \in Callbacks |-> IdleCallback]
  /\ notifications = <<>>
  /\ tm_call = NoCall

construct ==
  /\ agent_auth.pc = "new"
  /\ agent_auth' = Constructed(impl, agent_auth.responses)
  /\ agent_token' = authenticate_agent(impl, agent_auth.responses).result
  /\ UNCHANGED <<impl, message_handler, now, token_store, pending_auths, future,
                 pkce_data, req, cb, notifications, tm_call>>

AgentAuthNext == construct

AgentAuthSpec == AgentAuthInit /\ [][AgentAuthNext]_vars

\* ----------------------------------------------- the consent flow on its own
\* The delegated flow with everything its environment can do to it: the
\* message handler can raise, the waiting task can be cancelled, the exchange
\* can time out, and the redirect can reach another broker instance.  The
\* broker is one whose agent authentication succeeded at construction.
\* Requests are for the delegated config of the order tools.
DelegatedConfigs ==
  { config \in Configs : config.token_type = OBO_TOKEN /\ config.resource = "pizza_api" }

ConsentInit ==
  /\ impl \in Impls
  /\ message_handler = TRUE
  /\ agent_auth = Constructed(impl, [k \in 1..NumSteps(impl) |-> "ok"])
  /\ agent_token = agent_auth.result
  /\ now = 0
  /\ token_store = TTLCache(DEFAULT_TOKEN_STORE_MAX_SIZE, DEFAULT_TOKEN_STORE_TTL)
  /\ pending_auths = <<>>
  /\ future = <<>>
  /\ pkce_data = <<>>
  /\ req = [r \in Requests |-> IdleRequest]
  /\ cb = [c \in Callbacks |-> IdleCallback]
  /\ notifications = <<>>
  /\ tm_call = NoCall

\* the steps the broker takes by itself once a call has been made
ConsentStep(r) ==
  \/ message_handler_returns(r)
  \/ caller_resumes(r)
  \/ wait_for_timeout(r)
  \/ wait_for_timeout_after_done(r)
  \/ AM_timeout_handler(r)
  \/ PM_timeout_handler(r)

ConsentNext ==
  \/ \E r \in Requests, config \in DelegatedConfigs : get_oauth_token(r, config)
  \/ \E r \in Requests : ConsentStep(r)
  \/ \E r \in Requests : message_handler_raises(r)
  \/ \E r \in Requests : caller_cancelled(r)
  \/ \E c \in Callbacks, state \in CallbackStates, code \in Codes :
        AM_process_callback(c, state, code)
  \/ \E c \in Callbacks, state \in CallbackStates, code \in Codes :
        PM_process_callback(c, state, code)
  \/ \E c \in Callbacks, state \in CallbackStates, code \in Codes :
        other_instance_callback(c, state, code)
  \/ \E c \in Callbacks : process_callback_completes(c)
  \/ \E c \in Callbacks : AM_exchange_times_out(c)

ConsentSpec == ConsentInit /\ [][ConsentNext]_vars

\* The event loop runs every coroutine that can run: a handler that was
\* called ends (by returning or raising), a timer that was set fires, an
\* exchange that was sent ends.  Whether and when a redirect or a new call
\* arrives, or a task is cancelled, is up to the outside.
FairConsentSpec ==
  /\ ConsentSpec
  /\ \A r \in Requests : WF_vars(ConsentStep(r) \/ message_handler_raises(r))
  /\ \A c \in Callbacks : WF_vars(process_callback_completes(c) \/ AM_exchange_times_out(c))

\* ======================================================== specification
Next ==
  \/ \E r \in Requests, config \in Configs : get_oauth_token(r, config)
  \/ \E r \in Requests : message_handler_returns(r)
  \/ \E r \in Requests : caller_resumes(r)
  \/ \E r \in Requests : wait_for_timeout(r)
  \/ \E r \in Requests : wait_for_timeout_after_done(r)
  \/ \E r \in Requests : AM_timeout_handler(r)
  \/ \E r \in Requests : PM_timeout_handler(r)
  \/ \E c \in Callbacks, state \in CallbackStates, code \in Codes :
        AM_process_callback(c, state, code)
  \/ \E c \in Callbacks, state \in CallbackStates, code \in Codes :
        PM_process_callback(c, state, code)
  \/ \E c \in Callbacks : process_callback_completes(c)
  \/ \E r \in Requests, answer \in Answers : refresh_completes(r, answer)
  \/ \E r \in Requests, answer \in Answers : fetch_completes(r, answer)
  \/ \E d \in ClockSteps : clock_advance(d)

Spec == Init /\ [][Next]_vars

TypeOK ==
  /\ impl \in Impls
  /\ DOMAIN pending_auths \subseteq States
  /\ DOMAIN pkce_data \subseteq States
  /\ DOMAIN future \subseteq States
  /\ \A r \in Requests : req[r].pc \in {"idle", "notify", "wait", "timeout", "refresh", "fetch", "done"}
  /\ \A c \in Callbacks : cb[c].pc \in {"idle", "exchange", "done"}
  /\ agent_auth.pc \in {"new", "constructed"}
  /\ agent_token \in {"", AgentAccessToken}
  /\ agent_auth.pc = "constructed" => agent_auth.responses \in AuthResponses(impl)

\* ================================================================ claims
\* the exchange of callback c was sent and the token endpoint accepts its code
ExchangeSucceeds(c) == cb[c].sent /\ ExchangeAnswer(cb[c].code) = "ok"
\* the token that exchange yields
ExchangedToken(c) == cb[c].issued
\* the exchange request that carries the scopes, resource and verifier that
\* were recorded when the state was created
RecordedExchange(state, code) ==
  LET r == RequestOf(state)
  IN  [scopes |-> req[r].config.scopes, resource |-> req[r].config.resource,
       code |-> code, code_verifier |-> generate_pkce_pair(r)[1],
       actor_token |-> agent_token]
\* c is the one process_callback call made with this state
OnlyCallback(c, state) ==
  /\ cb[c].pc # "idle" /\ cb[c].state = state
  /\ \A d \in Callbacks \ {c} : cb[d].pc = "idle" \/ cb[d].state # state
\* the timeout failures a caller can observe
TimeoutFailure(i) == IF i = "AuthManager" THEN Raised(ErrTimeout) ELSE ReturnedNone

\* C1: for one pending authorization with one process_callback whose exchange
\* succeeds, the suspended caller ends with exactly one of the exchanged token
\* (and then no timeout) or the timeout failure (and then no token), and once
\* that callback has finished the caller is never left waiting on an
\* unresolved handle.
C1_ExactlyOneOutcome ==
  \A r \in Requests : \A c \in Callbacks :
    (/\ req[r].state # ""
     /\ OnlyCallback(c, req[r].state)
     /\ cb[c].pc = "done"
     /\ ExchangeSucceeds(c))
    => /\ req[r].pc = "wait" => done(future[req[r].state])
       /\ req[r].pc = "done" =>
            \/ /\ req[r].outcome = Returned(ExchangedToken(c))
               /\ ~req[r].timed_out
            \/ /\ req[r].outcome = TimeoutFailure(impl)
               /\ req[r].timed_out

\* C1 witness: the timeout fired while the exchange was in flight, the exchange
\* succeeded, and the caller has left with the timeout failure.
C1_Witness ==
  \E r \in Requests : \E c \in Callbacks :
    /\ req[r].state # "" /\ OnlyCallback(c, req[r].state)
    /\ cb[c].pc = "done" /\ ExchangeSucceeds(c)
    /\ req[r].pc = "done" /\ req[r].timed_out

\* C2: a suspension handle that is done (result, exception or cancelled) never
\* changes again, under any interleaving of callbacks and the timeout; so a
\* handle the timeout has cancelled is never fulfilled with a token.
C2_CompletedAtMostOnce ==
  [][\A s \in DOMAIN future :
       future[s].status # "pending" => (s \in DOMAIN future' /\ future'[s] = future[s])]_vars

\* C2 witness: a callback's exchange came back after the timeout had cancelled
\* the handle, and the handle is still cancelled.
C2_Witness ==
  \E c \in Callbacks :
    /\ cb[c].pc = "done" /\ cb[c].path = "pending" /\ cb[c].sent
    /\ future[cb[c].state].status = "cancelled"

\* C3 (as claimed): a process_callback made with a state for which an earlier
\* process_callback has already returned a token fails at once with
\* "Authorization already completed".
C3_DuplicateAlreadyCompleted ==
  \A c \in Callbacks :
    (cb[c].pc # "idle" /\ cb[c].after_success)
    => (cb[c].pc = "done" /\ cb[c].outcome = Raised(ErrAlreadyCompleted))

C5_EveryLateCallbackRecovers ==
  \A c \in Callbacks :
    (impl = "AuthManager" /\ cb[c].pc = "done" /\ cb[c].late /\ cb[c].code = "validcode")
    => /\ cb[c].sent
       /\ cb[c].xreq = RecordedExchange(cb[c].state, cb[c].code)
       /\ cb[c].outcome.kind = "token"

\* C6 (as claimed): the token a late callback obtained through the recovery
\* record is in the token cache under the key of the original request's config.
C6_LateTokenCached ==
  \A c \in Callbacks :
    (/\ impl = "AuthManager" /\ cb[c].pc = "done" /\ cb[c].late
     /\ cb[c].path = "recovery" /\ cb[c].outcome.kind = "token")
    => get_token(token_store, impl, req[RequestOf(cb[c].state)].config, now)
         = cb[c].outcome.token

\* C7: a process_callback whose state has neither a pending entry nor a
\* recovery record ends at once with the invalid-state error, has sent no
\* exchange request, and leaves the pending table, the recovery records, the
\* handles and the token cache as they were.
C7_UnknownStateRejected ==
  [][\A c \in Callbacks :
       (/\ cb[c].pc = "idle" /\ cb'[c].pc # "idle"
        /\ cb'[c].state \notin DOMAIN pending_auths
        /\ cb'[c].state \notin DOMAIN pkce_data)
       => /\ cb'[c].pc = "done"
          /\ cb'[c].outcome = Raised(ErrInvalidState)
          /\ ~cb'[c].sent
          /\ pending_auths' = pending_auths
          /\ pkce_data' = pkce_data
          /\ token_store' = token_store
          /\ future' = future]_vars

\* C7 witness: a callback with a state the broker never drew was rejected
\* while an authorization was pending.
C7_Witness ==
  \E c \in Callbacks :
    /\ cb[c].pc = "done" /\ cb[c].state = BogusState
    /\ cb[c].outcome = Raised(ErrInvalidState)
    /\ pending_auths # <<>>

\* the exchange of a callback that found a pending, unresolved entry failed
ExchangeFailed(c) ==
  /\ cb[c].pc = "done" /\ cb[c].path = "pending"
  /\ cb[c].outcome # Raised(ErrAlreadyCompleted)
  /\ cb[c].issued = NoToken
\* the error of that failure
ExchangeFailure(c) == IF cb[c].sent THEN ErrExchange ELSE local_failure(impl, cb[c].code)

\* C8 (as claimed): whenever the exchange of a callback that found a pending,
\* unresolved entry has failed, process_callback has raised that error, the
\* handle carries it, and the caller, once it has resumed from the handle, has
\* failed with it.
C8_FailureAlwaysReachesCaller ==
  \A c \in Callbacks :
    ExchangeFailed(c)
    => /\ cb[c].outcome = Raised(ExchangeFailure(c))
       /\ future[cb[c].state].status = "exception"
       /\ future[cb[c].state].error = ExchangeFailure(c)
       /\ (req[RequestOf(cb[c].state)].pc = "done"
           /\ ~req[RequestOf(cb[c].state)].timed_out)
          => req[RequestOf(cb[c].state)].outcome = Raised(ExchangeFailure(c))

\* C8 (amended): when the exchange of such a callback fails while the handle
\* is still unresolved, the handle is failed with that error and
\* process_callback raises it; a caller that resumes from a failed handle
\* fails with the handle's error; neither step changes the token cache.
C8_FailurePropagates ==
  [][/\ \A c \in Callbacks :
          (/\ cb[c].pc # "done" /\ cb'[c].pc = "done" /\ cb'[c].path = "pending"
           /\ cb'[c].outcome # Raised(ErrAlreadyCompleted)
           /\ cb'[c].issued = NoToken
           /\ future[cb'[c].state].status = "pending")
          => LET e == IF cb'[c].sent THEN ErrExchange ELSE local_failure(impl, cb'[c].code)
             IN  /\ future'[cb'[c].state].status = "exception"
                 /\ future'[cb'[c].state].error = e
                 /\ cb'[c].outcome = Raised(e)
                 /\ token_store' = token_store
     /\ \A r \in Requests :
          (/\ req[r].pc = "wait" /\ req'[r].pc = "done"
           /\ future[req[r].state].status = "exception")
          => /\ req'[r].outcome = Raised(future[req[r].state].error)
             /\ token_store' = token_store]_vars

\* C8 witness: an exchange was rejected, process_callback raised the error and
\* the suspended caller has failed with the same error.
C8_Witness ==
  \E c \in Callbacks :
    /\ ExchangeFailed(c) /\ cb[c].sent
    /\ cb[c].outcome = Raised(ErrExchange)
    /\ req[RequestOf(cb[c].state)].pc = "done"
    /\ req[RequestOf(cb[c].state)].outcome = Raised(ErrExchange)

\* C9: in AuthManager the timeout handler removes the pending entry of its
\* state, fails the caller with the timeout error, leaves the token cache and
\* the recovery records as they were, and (no callback having been made with
\* that state) the recovery record of the state is still there.
C9_TimeoutKeepsRecovery ==
  [][\A r \in Requests :
       (impl = "AuthManager" /\ req[r].pc = "timeout" /\ req'[r].pc = "done")
       => /\ req[r].state \notin DOMAIN pending_auths'
          /\ req'[r].outcome = Raised(ErrTimeout)
          /\ token_store' = token_store
          /\ pkce_data' = pkce_data
          /\ (\A c \in Callbacks : cb[c].pc = "idle" \/ cb[c].state # req[r].state)
             => req[r].state \in DOMAIN pkce_data']_vars

\* C9 witness: an AuthManager caller has timed out; its pending entry is gone
\* and its recovery record is kept.
C9_Witness ==
  \E r \in Requests :
    /\ impl = "AuthManager" /\ req[r].pc = "done"
    /\ req[r].outcome = Raised(ErrTimeout)
    /\ req[r].state \notin DOMAIN pending_auths
    /\ req[r].state \in DOMAIN pkce_data

\* the URL carries this parameter
UrlContains(url, param) == \E i \in DOMAIN url.params : url.params[i] = param
\* the notifications emitted for a state
NotificationsFor(state) == { i \in DOMAIN notifications : notifications[i].state = state }
\* the request was called for a delegated config and did not find a token in
\* the cache
CacheMissed(r) ==
  /\ req[r].pc # "idle"
  /\ req[r].via = "consent"
\* exactly one notification was emitted for the request, with the S256 method
\* and the scopes joined by spaces in its URL
OneNotification(r) ==
  /\ Cardinality(NotificationsFor(create_state(r))) = 1
  /\ \A i \in NotificationsFor(create_state(r)) :
       /\ UrlContains(notifications[i].auth_url, "code_challenge_method=S256")
       /\ UrlContains(notifications[i].auth_url, "scope=" \o Join(req[r].config.scopes, " "))
       /\ notifications[i].scopes = req[r].config.scopes

\* C10 (as claimed): with a message handler registered, every get_oauth_token
\* that missed the cache has emitted exactly one notification with the S256 method and the joined scopes, and as
\* soon as process_callback has returned a token for a pending authorization
\* the cache holds that token for the request's config.
C10_CachedOnceCallbackReturns ==
  /\ \A r \in Requests : (message_handler /\ CacheMissed(r)) => OneNotification(r)
  /\ \A c \in Callbacks :
       (cb[c].pc = "done" /\ cb[c].path = "pending" /\ cb[c].outcome.kind = "token")
       => get_token(token_store, impl, req[RequestOf(cb[c].state)].config, now)
            = cb[c].outcome.token

\* C10 (amended): with a message handler registered, every get_oauth_token
\* that missed the cache has emitted exactly one notification with the S256
\* method and the joined scopes; when the suspended caller resumes with the
\* token process_callback returned, the cache holds that token under the
\* config's key; and a get_oauth_token that finds an unexpired token under its
\* config's key returns that token and emits nothing.
C10_CachedOnceCallerResumes ==
  /\ [](\A r \in Requests : (message_handler /\ CacheMissed(r)) => OneNotification(r))
  /\ [][/\ \A r \in Requests :
             (/\ req[r].pc = "wait" /\ req'[r].pc = "done"
              /\ future[req[r].state].status = "result")
             => /\ req'[r].outcome = Returned(future[req[r].state].token)
                /\ get_token(token_store', impl, req[r].config, now)
                     = future[req[r].state].token
                /\ \E c \in Callbacks :
                     /\ cb[c].state = req[r].state
                     /\ cb[c].outcome = Returned(future[req[r].state].token)
        /\ \A r \in Requests :
             (/\ req[r].pc = "idle" /\ req'[r].pc # "idle"
              /\ get_token(token_store, impl, req'[r].config, now) # NoToken
              /\ ~is_expired(get_token(token_store, impl, req'[r].config, now), now))
             => /\ req'[r].pc = "done"
                /\ req'[r].outcome
                     = Returned(get_token(token_store, impl, req'[r].config, now))
                /\ notifications' = notifications]_vars

\* C10 witness: a caller resumed with the token process_callback returned, and
\* a later get_oauth_token for the same config was served that token from the
\* cache.
C10_Witness ==
  \E r1, r2 \in Requests : \E c \in Callbacks :
    /\ r1 # r2
    /\ req[r1].pc = "done" /\ req[r1].state # ""
    /\ cb[c].pc = "done" /\ cb[c].state = req[r1].state /\ cb[c].path = "pending"
    /\ cb[c].outcome.kind = "token"
    /\ req[r1].outcome = cb[c].outcome
    /\ req[r2].pc = "done" /\ req[r2].state = "" /\ req[r2].config = req[r1].config
    /\ req[r2].outcome = cb[c].outcome
    /\ Cardinality(NotificationsFor(req[r1].state)) = 1

\* the token stored under the config's key that a lookup at this moment sees
CachedFor(config) == cache_get(token_store, CacheKey(impl, config), now)
\* r makes its get_oauth_token call in this step
Calls(r) == req[r].pc = "idle" /\ req'[r].pc # "idle"
\* this step starts no consent flow
NoConsentStarted ==
  /\ notifications' = notifications
  /\ pending_auths' = pending_auths
  /\ future' = future
  /\ pkce_data' = pkce_data

\* C11: a get_oauth_token call that finds an unexpired token stored under its
\* config's key returns that token in the same step: it emits no notification,
\* sends no request to the token endpoint (it does not wait for a refresh, a
\* fetch or an exchange) and creates no pending entry.
C11_CacheHit ==
  [][\A r \in Requests :
       (/\ Calls(r)
        /\ CachedFor(req'[r].config) # NoToken
        /\ now < CachedFor(req'[r].config).expires_at - EXPIRY_MARGIN)
       => /\ req'[r].pc = "done"
          /\ req'[r].outcome = Returned(CachedFor(req'[r].config))
          /\ NoConsentStarted
          /\ cb' = cb
          /\ token_store' = token_store]_vars

\* C11 witness: a client-credentials request fetched and cached a token, and a
\* second request for that config was served the same token from the cache.
C11_Witness ==
  \E r1, r2 \in Requests :
    /\ req[r1].via = "fetch" /\ req[r1].outcome.kind = "token"
    /\ req[r2].via = "cache" /\ req[r2].config = req[r1].config
    /\ req[r2].outcome = req[r1].outcome
    /\ notifications = <<>>

\* C12: a get_oauth_token call for a delegated config that finds an expired
\* token with a non-empty refresh_token under the config's key sends the
\* refresh request and starts no consent flow; nor does the step that ends the
\* refresh; so the request draws no state and no notification carries one.
C12_RefreshNotConsent ==
  /\ [](\A r \in Requests :
          req[r].via = "refresh"
          => /\ req[r].pc \in {"refresh", "done"}
             /\ req[r].state = ""
             /\ NotificationsFor(create_state(r)) = {}
             /\ create_state(r) \notin DOMAIN pending_auths)
  /\ [][\A r \in Requests :
          /\ (/\ Calls(r)
              /\ req'[r].config.token_type = OBO_TOKEN
              /\ CachedFor(req'[r].config) # NoToken
              /\ is_expired(CachedFor(req'[r].config), now)
              /\ CachedFor(req'[r].config).refresh_token # "")
             => /\ req'[r].pc = "refresh"
                /\ NoConsentStarted
          /\ (req[r].pc = "refresh" /\ req'[r].pc # "refresh")
             => /\ req'[r].pc = "done"
                /\ NoConsentStarted]_vars

\* C12 witness: a delegated request found its cached token expired, refreshed
\* it and returned the refreshed token, while the only notification is the one
\* of the request that first obtained consent.
C12_Witness ==
  \E r \in Requests :
    /\ req[r].via = "refresh" /\ req[r].pc = "done"
    /\ req[r].config.token_type = OBO_TOKEN
    /\ req[r].outcome.kind = "token"
    /\ Len(notifications) = 1

\* C13 (as claimed): when the refresh inside get_oauth_token succeeds, the
\* refreshed token is stored under the config's key, so a lookup for that
\* config finds it.
C13_RefreshedTokenCached ==
  [][\A r \in Requests :
       (req[r].pc = "refresh" /\ req'[r].pc = "done" /\ req'[r].outcome.kind = "token")
       => get_token(token_store', impl, req[r].config, now) = req'[r].outcome.token]_vars

\* C14 (as claimed): when the refresh of an expired cached token is rejected,
\* the request goes on to the consent flow instead of failing.
C14_FailedRefreshFallsThrough ==
  [][\A r \in Requests :
       (req[r].pc = "refresh" /\ req'[r].pc # "refresh" /\ req'[r].outcome.kind # "token")
       => /\ req'[r].via = "consent"
          /\ req'[r].outcome.kind # "error"]_vars

\* C15 (as claimed): the token get_oauth_token returns is not expired at the
\* moment of the return, for every grant kind.
C15_NeverReturnsExpired ==
  [][\A r \in Requests :
       (req[r].pc # "done" /\ req'[r].pc = "done" /\ req'[r].outcome.kind = "token")
       => ~is_expired(req'[r].outcome.token, now)]_vars

\* C16 (as claimed): the token a TokenManager.get_token call returns is not
\* expired at the time of the call.
C16_GetNeverReturnsExpired ==
  (tm_call.config # NoConfig /\ tm_call.token # NoToken)
  => ~is_expired(tm_call.token, tm_call.at)

\* the two configs differ in nothing but the resource they name
SameButResource(c1, c2) ==
  /\ Range(c1.scopes) = Range(c2.scopes)
  /\ c1.token_type = c2.token_type
  /\ c1.resource # c2.resource

\* C17 (as claimed): in AuthManager a token obtained and cached for a config
\* that names one resource is never what get_oauth_token returns for a config
\* with the same scopes and grant kind that names another resource.
C17_ResourceInKey ==
  impl = "AuthManager"
  => \A r1, r2 \in Requests :
       (/\ req[r1].outcome.kind = "token"
        /\ req[r2].outcome.kind = "token"
        /\ SameButResource(req[r1].config, req[r2].config))
       => req[r1].outcome.token # req[r2].outcome.token

\* the two configs have the same set of scopes, grant kind and resource
SameEffectiveKey(c1, c2) ==
  /\ Range(c1.scopes) = Range(c2.scopes)
  /\ c1.token_type = c2.token_type
  /\ c1.resource = c2.resource

\* C18: for two configs with the same set of scopes in any order, the same
\* grant kind and the same resource, a token stored with add_token under one
\* is what get_token returns for the other, whatever the cache held before.
C18_SameKeySameSlot ==
  \A c1, c2 \in CacheConfigs :
    SameEffectiveKey(c1, c2)
    => \A T \in CacheTokens(now) :
         get_token(add_token(token_store, impl, c1, T, now), impl, c2, now) = T

\* C18 witness: a token was added under a config and then looked up, and
\* found, under the config that lists the same scopes in the other order.
C18_Witness ==
  /\ tm_call.added # NoConfig /\ tm_call.config # NoConfig
  /\ SameEffectiveKey(tm_call.added, tm_call.config)
  /\ tm_call.added.scopes # tm_call.config.scopes
  /\ tm_call.token = tm_call.added_token

\* C19: a get_token for the config of the last add_token, with no add_token in
\* between (so neither a replacement nor an eviction), returns the token that
\* was added, provided it is not expired at the lookup and the lookup falls
\* within the cache ttl of the add.
C19_RoundTrip ==
  (/\ tm_call.added # NoConfig
   /\ tm_call.config = tm_call.added
   /\ ~is_expired(tm_call.added_token, tm_call.at)
   /\ tm_call.at < tm_call.added_at + token_store.ttl)
  => tm_call.token = tm_call.added_token

\* C19 witness: the long-lived token was added, the clock moved on, and a
\* lookup for the same config within the ttl returned it.
C19_Witness ==
  /\ tm_call.added # NoConfig
  /\ tm_call.config = tm_call.added
  /\ tm_call.at > tm_call.added_at
  /\ tm_call.at < tm_call.added_at + token_store.ttl
  /\ tm_call.token = tm_call.added_token
  /\ Len(token_store.links) = 2

\* C20: the token cache never holds more than maxsize entries.
C20_AtMostMaxsize ==
  Len(token_store.links) <= token_store.maxsize

\* C20 witness: an add_token into a full cache evicted an entry, and the
\* cache is full again.
C20_Witness ==
  /\ tm_call.evicted
  /\ Len(token_store.links) = token_store.maxsize

\* C21: OAuthToken.is_expired() is true exactly when expires_at is unset or
\* the clock has reached expires_at - 60 seconds; so it is true all through the
\* last 60 seconds before expires_at.
C21_ExpiredExactly ==
  tm_call.checked # NoToken
  => /\ tm_call.expired
          <=> (tm_call.checked.expires_at = 0
               \/ tm_call.checked_at >= tm_call.checked.expires_at - 60)
     /\ (/\ tm_call.checked.expires_at # 0
         /\ tm_call.checked_at >= tm_call.checked.expires_at - 60
         /\ tm_call.checked_at < tm_call.checked.expires_at)
        => tm_call.expired

\* C21 witness: is_expired() was called on a token within the last 60 seconds
\* before its expires_at and answered true.
C21_Witness ==
  /\ tm_call.checked # NoToken
  /\ tm_call.checked.expires_at # 0
  /\ tm_call.checked_at >= tm_call.checked.expires_at - 60
  /\ tm_call.checked_at < tm_call.checked.expires_at
  /\ tm_call.expired


\* C22: when get_oauth_token calls for a refresh of a cached token that has no
\* refresh_token, the refresh returns None: no refresh request goes to the
\* token endpoint and nothing is raised; the call goes on to obtain a new
\* token as on a cache miss.
C22_EmptyRefreshTokenNoRequest ==
  [][\A r \in Requests :
       (/\ req[r].pc = "idle" /\ req'[r].pc # "idle"
        /\ LET token == get_token(token_store, impl, req'[r].config, now)
           IN  /\ token # NoToken
               /\ token.refresh_token = ""
               /\ (token.expires_at = 0 \/ now >= token.expires_at - 60)
               /\ (impl = "AuthManager" => req'[r].config.token_type = OBO_TOKEN))
       => /\ req'[r].pc # "refresh"
          /\ req'[r].refresh = "none"
          /\ req'[r].via \in {"fetch", "consent"}
          /\ req'[r].outcome = NoOutcome]_vars

\* C22 witness: a request found an expired cached token without a
\* refresh_token and went on to fetch a new one.
C22_Witness ==
  \E r \in Requests :
    /\ req[r].refresh = "none"
    /\ req[r].pc = "fetch"
    /\ req[r].outcome = NoOutcome


\* C23: on a broker whose agent authentication failed at construction (the
\* constructor completed and stored no actor token), a client-credentials
\* request that the token endpoint accepts returns the token, has sent no
\* actor token, and leaves the token in the cache under its config.
C23_ClientCredentialsWithoutAgent ==
  [][\A r \in Requests :
       (/\ agent_auth.pc = "constructed" /\ agent_auth.result = ""
        /\ req[r].pc = "fetch" /\ req'[r].pc = "done"
        /\ req'[r].outcome # Raised(ErrExchange))
       => /\ agent_token = ""
          /\ req[r].sent.grant_type = "client_credentials"
          /\ req[r].sent.actor_token = ""
          /\ req'[r].outcome.kind = "token"
          /\ get_token(token_store', impl, req[r].config, now) = req'[r].outcome.token]_vars

\* C23 witness: the constructor's agent authentication failed and a
\* client-credentials request has returned a token that is in the cache.
C23_Witness ==
  \E r \in Requests :
    /\ agent_auth.pc = "constructed" /\ agent_auth.result = "" /\ agent_token = ""
    /\ req[r].via = "fetch" /\ req[r].pc = "done"
    /\ req[r].outcome.kind = "token"
    /\ get_token(token_store, impl, req[r].config, now) = req[r].outcome.token


\* C24 (as claimed): with or without a stored actor token, a process_callback
\* that finds the pending entry and carries a valid code sends the exchange,
\* with the actor token when one is stored and without the parameter when none
\* is, and fulfils the suspended caller's handle with the token (unless the
\* consent timeout has cancelled the handle meanwhile).
C24_ConsentWorksWithoutActorToken ==
  \A c \in Callbacks :
    (/\ cb[c].pc = "done" /\ cb[c].path = "pending" /\ cb[c].code = "validcode"
     /\ future[cb[c].state].status # "cancelled")
    => /\ cb[c].sent
       /\ cb[c].xreq.actor_token = agent_token
       /\ cb[c].outcome.kind = "token"
       /\ future[cb[c].state].status = "result"


StepFailed(i, resp, k) ==
  \/ resp[k] = "status"
  \/ k = 1 /\ resp[k] \in {"no_flow", "no_authenticator"}
  \/ k = 2 /\ i = "PizzaAuthManager" /\ resp[k] = "no_authenticator"
  \/ k = NumSteps(i) - 1 /\ resp[k] = "no_code"

\* C26 (as claimed): in the agent authentication sequence a failure at any
\* step ends the sequence with failure, and the request of no later step is
\* sent.
C26_FailureAbortsSequence ==
  agent_auth.pc = "constructed"
  => \A k \in 1..Len(agent_auth.sent) :
       StepFailed(impl, agent_auth.responses, k)
       => (agent_auth.result = "" /\ Len(agent_auth.sent) = k)


\* a step leaves the pending entries and the suspension handles of all states
\* but one, and the cache entries of all keys but those given, as they were
OthersUntouched(state, keys) ==
  /\ DOMAIN pending_auths' \ {state} = DOMAIN pending_auths \ {state}
  /\ \A s \in DOMAIN pending_auths \ {state} : pending_auths'[s] = pending_auths[s]
  /\ DOMAIN future' \ {state} = DOMAIN future \ {state}
  /\ \A s \in DOMAIN future \ {state} : future'[s] = future[s]
  /\ { l \in Range(token_store'.links) : l.key \notin keys }
       = { l \in Range(token_store.links) : l.key \notin keys }

\* the step is a failure of request r: its consent wait times out, its timeout
\* handler runs, or it ends with an error or with None
RequestFails(r) ==
  /\ req'[r] # req[r]
  /\ \/ req'[r].pc = "timeout"
     \/ req[r].pc = "timeout"
     \/ req'[r].outcome.kind \in {"error", "none"}

\* the step is a failure of callback c: it ends with an error (unknown state,
\* rejected or refused exchange)
CallbackFails(c) == cb'[c] # cb[c] /\ cb'[c].outcome.kind = "error"

\* C27: a failure in one caller's token acquisition (a failed exchange, a
\* failed refresh, a consent timeout, a rejected callback) leaves the pending
\* entries and suspension handles of all other states, and the cache entries
\* of all other keys, unchanged.
C27_FailureTouchesOnlyItsOwn ==
  [][/\ \A r \in Requests :
          RequestFails(r)
          => OthersUntouched(req'[r].state, {CacheKey(impl, req'[r].config)})
     /\ \A c \in Callbacks :
          CallbackFails(c)
          => OthersUntouched(cb'[c].state,
                             IF cb'[c].state \in States
                             THEN {CacheKey(impl, req[RequestOf(cb'[c].state)].config)}
                             ELSE {})]_vars

\* C27 witness: one request has failed (consent timeout, rejected callback or
\* failed exchange) while another request is still suspended on its own
\* pending entry and unresolved handle.
C27_Witness ==
  \E r1, r2 \in Requests :
    /\ r1 # r2
    /\ req[r1].pc = "done" /\ req[r1].via = "consent" /\ req[r1].outcome.kind = "error"
    /\ req[r2].pc = "wait"
    /\ req[r2].state \in DOMAIN pending_auths
    /\ future[req[r2].state].status = "pending"


\* the client-credentials config of the secured tools
ClientConfig == CHOOSE config \in Configs : config.token_type = CLIENT_TOKEN

\* request r is suspended awaiting consent: its handle is unresolved
Suspended(r) ==
  /\ req[r].pc \in {"notify", "wait"}
  /\ req[r].state \in DOMAIN future
  /\ future[req[r].state].status = "pending"

\* C28: while one get_oauth_token request is suspended awaiting consent, the
\* next get_oauth_token call with a client-credentials config is taken up, and
\* once its request is at the token endpoint it can complete and return its
\* token, all before the suspended request is resolved or times out.
C28_SuspensionDoesNotBlock ==
  \A r1, r2 \in Requests :
    (r1 # r2 /\ Suspended(r1))
    => /\ (req[r2].pc = "idle" /\ \A r \in Requests : r < r2 => req[r].pc # "idle")
          => ENABLED get_oauth_token(r2, ClientConfig)
       /\ (req[r2].pc = "fetch")
          => ENABLED fetch_completes(r2, "ok")

\* C28 witness: a client-credentials request has returned its token while
\* another request is still suspended awaiting consent.
C28_Witness ==
  \E r1, r2 \in Requests :
    /\ r1 < r2
    /\ Suspended(r1)
    /\ req[r2].pc = "done" /\ req[r2].via = "fetch" /\ req[r2].outcome.kind = "token"


\* C29: for a client-credentials config get_oauth_token on a cache miss sends
\* the token-endpoint request itself, caches the token it gets and returns it;
\* such a request never creates a pending entry or a handle, never emits a
\* notification and never waits for a callback.
C29_ClientCredentialsDirect ==
  [][\A r \in Requests :
       /\ (/\ req[r].pc = "idle" /\ req'[r].pc # "idle"
           /\ req'[r].config.token_type = CLIENT_TOKEN
           /\ get_token(token_store, impl, req'[r].config, now) = NoToken)
          => /\ req'[r].pc = "fetch"
             /\ req'[r].sent.grant_type = "client_credentials"
             /\ req'[r].sent.scope = Join(req'[r].config.scopes, " ")
       /\ (req[r].pc = "fetch" /\ req'[r].pc # "fetch")
          => /\ req'[r].pc = "done"
             /\ req'[r].outcome.kind = "token"
                => get_token(token_store', impl, req[r].config, now) = req'[r].outcome.token
       /\ (req'[r] # req[r] /\ req'[r].config.token_type = CLIENT_TOKEN)
          => /\ req'[r].pc \in {"fetch", "refresh", "done"}
             /\ req'[r].state = ""
             /\ pending_auths' = pending_auths
             /\ future' = future
             /\ pkce_data' = pkce_data
             /\ notifications' = notifications]_vars

\* C29 witness: a client-credentials request missed the cache, fetched its
\* token, cached and returned it, and no state was drawn for it.
C29_Witness ==
  \E r \in Requests :
    /\ req[r].config.token_type = CLIENT_TOKEN
    /\ req[r].pc = "done" /\ req[r].via = "fetch" /\ req[r].state = ""
    /\ req[r].outcome.kind = "token"
    /\ get_token(token_store, impl, req[r].config, now) = req[r].outcome.token
    /\ NotificationsFor(create_state(r)) = {}

\* C30: the code_verifier sent in the token exchange for a state, through the
\* pending entry or through the recovery record, is the verifier whose S256
\* challenge is in the authorization URL that was emitted for that state, and
\* in the URL of no other state.
C30_VerifierMatchesChallenge ==
  \A c \in Callbacks :
    cb[c].sent
    => /\ NotificationsFor(cb[c].state) # {}
       /\ \A i \in DOMAIN notifications :
            UrlContains(notifications[i].auth_url,
                        "code_challenge=" \o S256(cb[c].xreq.code_verifier))
            <=> notifications[i].state = cb[c].state

\* C30 witness: two states are in flight and the exchange for one of them has
\* been sent.
C30_Witness ==
  \E c \in Callbacks :
    /\ cb[c].sent
    /\ cb[c].xreq.code_verifier # ""
    /\ \E i \in DOMAIN notifications : notifications[i].state # cb[c].state

\* C33: when process_callback finds an entry for the state whose handle is
\* already done (cancelled by a timeout whose handler has not yet removed the
\* entry), it raises "Authorization already completed.", sends no exchange
\* request and leaves the handle as it was.
C33_AlreadyCompleted ==
  [][\A c \in Callbacks :
       (/\ cb[c].pc = "idle" /\ cb'[c].pc # "idle"
        /\ cb'[c].state \in DOMAIN pending_auths
        /\ future[cb'[c].state].status # "pending")
       => /\ cb'[c].pc = "done"
          /\ cb'[c].outcome = Raised(ErrAlreadyCompleted)
          /\ ~cb'[c].sent
          /\ future' = future]_vars

\* C33 witness: a callback met the entry of a state whose handle the consent
\* timeout had cancelled, and was refused without an exchange.
C33_Witness ==
  \E c \in Callbacks :
    /\ cb[c].pc = "done" /\ cb[c].path = "pending"
    /\ cb[c].outcome = Raised(ErrAlreadyCompleted)
    /\ ~cb[c].sent
    /\ future[cb[c].state].status = "cancelled"

\* C32: on a broker with no message handler registered, get_oauth_token for a
\* delegated config on a cache miss ends at once without a token, creates no
\* pending entry, no handle and no recovery record and emits no notification;
\* and AuthSchema refuses to bind the broker to a delegated config.
C32_NoHandlerNoDelegatedFlow ==
  [][~message_handler
     => /\ \A config \in Configs :
             config.token_type = OBO_TOKEN
             => AuthSchema_validate_manager(config, message_handler, redirect_uri)
                  = ErrHandlerRequired
        /\ \A r \in Requests :
             (/\ req[r].pc = "idle" /\ req'[r].pc # "idle"
              /\ req'[r].config.token_type = OBO_TOKEN
              /\ get_token(token_store, impl, req'[r].config, now) = NoToken)
             => /\ req'[r].pc = "done"
                /\ req'[r].outcome.kind \in {"error", "none"}
                /\ req'[r].state = ""
                /\ pending_auths' = pending_auths
                /\ pkce_data' = pkce_data
                /\ future' = future
                /\ notifications' = notifications]_vars

\* C32 witness: a broker without a message handler has answered a delegated
\* request without a token and holds no pending entry and no notification.
C32_Witness ==
  \E r \in Requests :
    /\ ~message_handler
    /\ req[r].pc = "done" /\ req[r].config.token_type = OBO_TOKEN
    /\ req[r].outcome.kind \in {"error", "none"}
    /\ pending_auths = <<>> /\ pkce_data = <<>> /\ notifications = <<>>
    /\ AuthSchema_validate_manager(req[r].config, message_handler, redirect_uri) # ""

\* C35 (as claimed): for any state value at most one token-exchange request is
\* ever sent, whatever the sequence or interleaving of process_callback calls
\* and timeouts.
C35_AtMostOneExchangePerState ==
  \A c, d \in Callbacks :
    (c # d /\ cb[c].sent /\ cb[d].sent) => cb[c].state # cb[d].state

\* C36 (as claimed): in PizzaAuthManager a request whose consent wait timed
\* out ends with None: no exception, no pending entry left for its state,
\* nothing cached for its config.
C36_TimeoutReturnsNone ==
  \A r \in Requests :
    (impl = "PizzaAuthManager" /\ req[r].pc = "done" /\ req[r].timed_out)
    => /\ req[r].outcome = ReturnedNone
       /\ req[r].state \notin DOMAIN pending_auths

\* the authorization URL carries a state for which the broker holds a pending
\* entry or a recovery record, with the verifier of the URL's challenge
Correlatable(url, pending, recovery) ==
  \/ \E s \in DOMAIN pending :
       /\ UrlContains(url, "state=" \o s)
       /\ UrlContains(url, "code_challenge=" \o S256(pending[s].code_verifier))
  \/ \E s \in DOMAIN recovery :
       /\ UrlContains(url, "state=" \o s)
       /\ UrlContains(url, "code_challenge=" \o S256(recovery[s].code_verifier))

\* C37 (as claimed): every authorization URL handed to the user, in a
\* notification or in a secured tool's result, carries, when it is handed
\* over, a state for which the broker holds a pending entry or a recovery
\* record with the matching code_verifier.
C37_EveryUrlCorrelatable ==
  [][/\ notifications' # notifications
        => Correlatable(notifications'[Len(notifications')].auth_url,
                        pending_auths', pkce_data')
     /\ \A r \in Requests :
          (/\ req[r].pc # "done" /\ req'[r].pc = "done"
           /\ SecureFunctionTool_run(impl, r, req'[r]).kind = "requires_auth")
          => Correlatable(SecureFunctionTool_run(impl, r, req'[r]).auth_url,
                          pending_auths', pkce_data')]_vars

\* C38 (as claimed): get_oauth_token rejects no grant kind of the enumeration
\* as an unsupported token type.
C38_NoGrantKindUnsupported ==
  \A r \in Requests :
    (req[r].pc = "done" /\ req[r].config.token_type \in {CLIENT_TOKEN, OBO_TOKEN, AGENT_TOKEN})
    => req[r].outcome # Raised(ErrUnsupported)

\* C40: when the notification for a state is delivered, the pending entry and
\* the handle of that state are registered; and the first callback for the
\* state, arriving while the request is still delivering the notification or
\* waiting, is not rejected as an unknown state.
C40_RegisteredBeforeNotified ==
  [][/\ notifications' # notifications
        => /\ Len(notifications') = Len(notifications) + 1
           /\ notifications'[Len(notifications')].state \in DOMAIN pending_auths'
           /\ notifications'[Len(notifications')].state \in DOMAIN future'
     /\ \A c \in Callbacks :
          (/\ cb[c].pc = "idle" /\ cb'[c].pc # "idle"
           /\ NotificationsFor(cb'[c].state) # {}
           /\ req[RequestOf(cb'[c].state)].pc \in {"notify", "wait"}
           /\ \A d \in Callbacks : cb[d].state # cb'[c].state)
          => cb'[c].outcome # Raised(ErrInvalidState)]_vars

\* C40 witness: a callback that arrived while the handler was still
\* delivering the notification found the pending entry.
C40_Witness ==
  \E c \in Callbacks :
    /\ cb[c].path = "pending"
    /\ cb[c].state \in States
    /\ req[RequestOf(cb[c].state)].pc = "notify"

\* C39: in AuthManager, when the exchange of a callback runs into its 30
\* seconds, process_callback ends by raising, no token was issued to it, the
\* token cache is not touched, and the handle of a flow that was still
\* pending holds the timeout error or was cancelled before; that callback
\* does nothing more afterwards (no second exchange); and the caller of such
\* a flow ends with an error and caches nothing.
C39_ExchangeTimeoutFails ==
  [][/\ \A c \in Callbacks :
          (cb[c].pc = "exchange" /\ cb'[c].answer = "timeout")
          => /\ impl = "AuthManager"
             /\ cb'[c].pc = "done"
             /\ cb'[c].outcome.kind = "error"
             /\ cb'[c].issued = NoToken
             /\ token_store' = token_store
             /\ cb[c].path = "pending"
                  => LET f == future'[cb[c].state]
                     IN  \/ f.status = "cancelled" /\ f = future[cb[c].state]
                         \/ f.status = "exception" /\ f.error = ErrFetchTimeout
     /\ \A c \in Callbacks : cb[c].answer = "timeout" => cb'[c] = cb[c]
     /\ \A r \in Requests :
          (/\ req[r].pc # "done" /\ req'[r].pc = "done"
           /\ \E c \in Callbacks : /\ cb[c].answer = "timeout"
                                   /\ cb[c].path = "pending"
                                   /\ cb[c].state = req[r].state)
          => /\ req'[r].outcome.kind = "error"
             /\ token_store' = token_store]_vars

\* C39 witness: an exchange timed out while its flow was pending,
\* process_callback raised the timeout error and the suspended caller has
\* failed with it.
C39_Witness ==
  \E c \in Callbacks :
    /\ cb[c].answer = "timeout" /\ cb[c].path = "pending" /\ cb[c].sent
    /\ cb[c].outcome = Raised(ErrFetchTimeout)
    /\ req[RequestOf(cb[c].state)].pc = "done"
    /\ req[RequestOf(cb[c].state)].via = "consent"
    /\ req[RequestOf(cb[c].state)].outcome = Raised(ErrFetchTimeout)

\* C34 (as claimed): a process_callback made on another broker instance than
\* the one that started the flows ends at once by raising the invalid-state
\* error, sends no exchange and is issued no token.
C34_PendingPrivateToInstance ==
  \A c \in Callbacks :
    (cb[c].instance = 2 /\ cb[c].pc # "idle")
    => /\ cb[c].pc = "done"
       /\ cb[c].outcome = Raised(ErrInvalidState)
       /\ ~cb[c].sent
       /\ cb[c].issued = NoToken

\* C31 (as claimed): every state that is in the pending table is eventually
\* out of it.
C31_PendingEventuallyRemoved ==
  \A s \in States : (s \in DOMAIN pending_auths) ~> (s \notin DOMAIN pending_auths)

====
